---- MODULE Spec2Model ----
(***************************************************************************)
(* Model of the anchor network crate: the signed handshake (envelope,      *)
(* identity record, handshake behaviours) and the peer manager.            *)
(*                                                                         *)
(* Byte strings are sequences of byte values (0..255).  A Rust String is   *)
(* the sequence of its bytes; Option<T> is a sequence of length 0 or 1.    *)
(* Every length the model produces is below 128, so a protobuf varint      *)
(* length is the single byte holding the length.                           *)
(***************************************************************************)
EXTENDS Integers, Sequences, FiniteSets, TLC

\* the seal/consume pipeline of the two test_node_info_seal_consume tests
VARIABLES sc_pc, sc_sealer, sc_parser, sc_rec, sc_key, sc_env, sc_data, sc_parsed, sc_info

scVars == <<sc_pc, sc_sealer, sc_parser, sc_rec, sc_key, sc_env, sc_data, sc_parsed, sc_info>>

\* the handshake behaviour and the request/response substrate under it
VARIABLES hs_impl, hs_inner, hs_events, hs_pending, hs_log, hs_crashed, hs_out,
          hs_next_id, hs_outstanding, hs_items

hsVars == <<hs_impl, hs_inner, hs_events, hs_pending, hs_log, hs_crashed, hs_out,
            hs_next_id, hs_outstanding, hs_items>>

\* the peer manager, the swarm's connections to each peer, what the last poll
\* returned, what the last call did and how many calls were made
VARIABLES pm, pm_conns, pm_out, pm_last, pm_steps

pmVars == <<pm, pm_conns, pm_out, pm_last, pm_steps>>

\* the marshal/unmarshal pipeline of the two test_node_info_marshal_unmarshal
\* tests, and one message written to and read from a stream by a codec
VARIABLES mr_pc, mr_impl, mr_x, mr_data, mr_src, mr_before, mr_rec, mr_res, mr_calls,
          cd_pc, cd_codec, cd_kind, cd_env, cd_io, cd_res

wrVars == <<mr_pc, mr_impl, mr_x, mr_data, mr_src, mr_before, mr_rec, mr_res, mr_calls,
            cd_pc, cd_codec, cd_kind, cd_env, cd_io, cd_res>>

\* verification of a received envelope
VARIABLES vf_pc, vf_routine, vf_env, vf_how, vf_data, vf_res

vfVars == <<vf_pc, vf_routine, vf_env, vf_how, vf_data, vf_res>>

\* make_unsigned applied to one triple
VARIABLES mu_pc, mu_domain, mu_payload_type, mu_payload, mu_out

muVars == <<mu_pc, mu_domain, mu_payload_type, mu_payload, mu_out>>

vars == <<scVars, hsVars, pmVars, wrVars, vfVars, muVars>>

(***************************************************************************)
(* Bounds of the model.                                                    *)
(***************************************************************************)
\* number of signing keys the inputs are drawn from
NumKeys == 2
\* number of remote peers
NumPeers == 2
\* ready items the inner behaviour holds at once
MaxInner == 2
\* items the inner behaviour produces in a run
MaxItems == 2
\* outbound requests sent in a run
MaxRequests == 1
\* calls made to the peer manager in a run
MaxSteps == 4
\* connections the swarm holds to one peer
MaxConns == 2
\* heartbeat ticks due at one poll
MaxTicks == 1
\* unmarshal calls made on one record
MaxUnmarshals == 2

\* make_unsigned: the longest field
MaxFieldLen == 2
\* maintain_peer_count on its own: the largest target, the largest number of
\* further peers in the store, the largest number of peers already dialing
MaxTarget == 12
MaxOthers == 14
MaxDialing == 3

\* The largest number of candidates waiting in the dial queue at once
MaxQueue == 3

(***************************************************************************)
(* Byte-string helpers.                                                    *)
(***************************************************************************)
\* smallest index j >= i with s[j] = b, or 0 when there is none
IndexFrom(s, b, i) ==
  LET hits == {j \in i..Len(s) : s[j] = b}
  IN IF hits = {} THEN 0 ELSE CHOOSE j \in hits : \A k \in hits : j <= k

Contains(s, b) == \E j \in 1..Len(s) : s[j] = b

\* the pieces of s between the separators b (one piece more than separators)
RECURSIVE SplitOn(_, _)
SplitOn(s, b) ==
  LET j == IndexFrom(s, b, 1)
  IN IF j = 0 THEN <<s>>
     ELSE <<SubSeq(s, 1, j - 1)>> \o SplitOn(SubSeq(s, j + 1, Len(s)), b)

(***************************************************************************)
(* handshake/node_info.rs: the identity record and its JSON encoding.      *)
(* JSON is modelled at byte level with a reduced grammar: the metadata     *)
(* object is '{' f1 ',' f2 ',' f3 ',' f4 '}' and the Serializable document *)
(* is '[' '"' e1 '"' ',' '"' e2 '"' ... ']'.  Field values never hold      *)
(* '{' ',' '}' or '"', so no escaping is needed.                           *)
(***************************************************************************)
\* NodeInfo::DOMAIN = "ssv" (node_info.rs and types.rs agree)
NodeInfo_DOMAIN == <<115, 115, 118>>
\* node_info.rs: NodeInfo::CODEC = b"ssv/nodeinfo"
NodeInfo_CODEC == <<115, 115, 118, 47, 110, 111, 100, 101, 105, 110, 102, 111>>
\* types.rs: <NodeInfo as Record>::CODEC = b"ssv:nodeinfo"
Record_CODEC == <<115, 115, 118, 58, 110, 111, 100, 101, 105, 110, 102, 111>>

\* NodeInfo::default()
NodeInfoDefault == [network_id |-> <<>>, metadata |-> <<>>]

\* serde_json::to_vec(&NodeMetadata)
MetaToJson(m) ==
  <<123>> \o m.node_version \o <<44>> \o m.execution_node \o <<44>>
          \o m.consensus_node \o <<44>> \o m.subnets \o <<125>>

\* serde_json::from_slice::<NodeMetadata>
MetaFromJson(s) ==
  LET bad == [ok |-> FALSE, meta |-> <<>>]
  IN IF Len(s) < 2 \/ s[1] # 123 \/ s[Len(s)] # 125 THEN bad
     ELSE LET f == SplitOn(SubSeq(s, 2, Len(s) - 1), 44)
          IN IF Len(f) # 4 \/ \E i \in 1..4 : Contains(f[i], 123) \/ Contains(f[i], 125)
             THEN bad
             ELSE [ok |-> TRUE,
                   meta |-> <<[node_version |-> f[1], execution_node |-> f[2],
                               consensus_node |-> f[3], subnets |-> f[4]]>>]

\* the quoted entries of a Serializable body, appended one by one
RECURSIVE EntriesToJson(_)
EntriesToJson(entries) ==
  IF entries = <<>> THEN <<>>
  ELSE <<34>> \o Head(entries) \o <<34>>
       \o (IF Len(entries) > 1 THEN <<44>> ELSE <<>>)
       \o EntriesToJson(Tail(entries))

\* serde_json::to_vec(&Serializable { entries })
SerializableToJson(entries) == <<91>> \o EntriesToJson(entries) \o <<93>>

RECURSIVE ParseEntries(_, _, _)
ParseEntries(s, i, acc) ==
  LET bad == [ok |-> FALSE, entries |-> <<>>]
  IN IF i > Len(s) \/ s[i] # 34 THEN bad
     ELSE LET j == IndexFrom(s, 34, i + 1)
          IN IF j = 0 THEN bad
             ELSE LET more == Append(acc, SubSeq(s, i + 1, j - 1))
                  IN IF j = Len(s) THEN [ok |-> TRUE, entries |-> more]
                     ELSE IF s[j + 1] = 44 THEN ParseEntries(s, j + 2, more)
                     ELSE bad

\* serde_json::from_slice::<Serializable>
SerializableFromJson(s) ==
  IF Len(s) < 2 \/ s[1] # 91 \/ s[Len(s)] # 93 THEN [ok |-> FALSE, entries |-> <<>>]
  ELSE IF Len(s) = 2 THEN [ok |-> TRUE, entries |-> <<>>]
  ELSE ParseEntries(SubSeq(s, 2, Len(s) - 1), 1, <<>>)

\* a variant of marshal without the deprecated placeholder entry
marshal_without_placeholder(self) ==
  SerializableToJson(
    <<self.network_id>>
    \o (IF self.metadata # <<>> THEN <<MetaToJson(self.metadata[1])>> ELSE <<>>))

\* NodeInfo::marshal
marshal(self) ==
  SerializableToJson(
    <<<<>>, self.network_id>>
    \o (IF self.metadata # <<>> THEN <<MetaToJson(self.metadata[1])>> ELSE <<>>))

\* NodeInfo::unmarshal(&mut self, data): the result and the record as the call leaves it
unmarshal(self, data) ==
  LET ser == SerializableFromJson(data)
  IN IF ~ser.ok THEN [ok |-> FALSE, err |-> "Serialization", self |-> self]
     ELSE IF Len(ser.entries) < 2 THEN [ok |-> FALSE, err |-> "Validation", self |-> self]
     ELSE LET s1 == [self EXCEPT !.network_id = ser.entries[2]]
          IN IF Len(ser.entries) >= 3
             THEN LET meta == MetaFromJson(ser.entries[3])
                  IN IF ~meta.ok
                     THEN [ok |-> FALSE, err |-> "Serialization", self |-> s1]
                     ELSE [ok |-> TRUE, err |-> "",
                           self |-> [s1 EXCEPT !.metadata = meta.meta]]
             ELSE [ok |-> TRUE, err |-> "", self |-> s1]

(***************************************************************************)
(* Keys and signatures.  A keypair is its index k; the signature scheme is *)
(* ideal: a signature is valid exactly for the key and the message it was  *)
(* made over.                                                              *)
(***************************************************************************)
Keys == 1..NumKeys

\* Keypair::sign
sign(k, msg) == <<k>> \o msg

\* keypair.public().encode_protobuf()
encode_protobuf(k) == <<8, 2, 18, 1, k>>

\* PublicKey::try_decode_protobuf
try_decode_protobuf(b) ==
  IF Len(b) = 5 /\ SubSeq(b, 1, 4) = <<8, 2, 18, 1>> /\ b[5] \in Keys
  THEN [ok |-> TRUE, key |-> b[5]]
  ELSE [ok |-> FALSE, key |-> 0]

\* PublicKey::verify
verify(k, msg, sig) == sig = <<k>> \o msg

(***************************************************************************)
(* handshake/envelope/mod.rs: the envelope, its protobuf form and          *)
(* parse_envelope.                                                         *)
(***************************************************************************)
\* prost::encoding::encode_varint followed by the bytes
frame(x) == <<Len(x)>> \o x

\* a variant of make_unsigned that writes the fields without their lengths
make_unsigned_unframed(domain, payload_type, payload) ==
  domain \o payload_type \o payload

\* make_unsigned
make_unsigned(domain, payload_type, payload) ==
  frame(domain) \o frame(payload_type) \o frame(payload)

\* one length-delimited protobuf field; prost omits an empty bytes field
ProtoField(tag, x) == IF x = <<>> THEN <<>> ELSE <<tag * 8 + 2, Len(x)>> \o x

\* Envelope::encode_to_vec: tags 1, 2, 3 and 5
encode_to_vec(env) ==
  ProtoField(1, env.public_key) \o ProtoField(2, env.payload_type)
  \o ProtoField(3, env.payload) \o ProtoField(5, env.signature)

EmptyEnvelope ==
  [public_key |-> <<>>, payload_type |-> <<>>, payload |-> <<>>, signature |-> <<>>]

RECURSIVE DecodeFields(_, _, _)
DecodeFields(b, i, env) ==
  IF i > Len(b) THEN [ok |-> TRUE, env |-> env]
  ELSE IF b[i] % 8 # 2 \/ b[i] \div 8 = 0 \/ i + 1 > Len(b) \/ i + 1 + b[i + 1] > Len(b)
       THEN [ok |-> FALSE, env |-> EmptyEnvelope]
  ELSE LET tag == b[i] \div 8
           val == SubSeq(b, i + 2, i + 1 + b[i + 1])
           nxt == i + 2 + b[i + 1]
       IN DecodeFields(b, nxt,
            CASE tag = 1 -> [env EXCEPT !.public_key = val]
              [] tag = 2 -> [env EXCEPT !.payload_type = val]
              [] tag = 3 -> [env EXCEPT !.payload = val]
              [] tag = 5 -> [env EXCEPT !.signature = val]
              [] OTHER -> env)

\* Envelope::decode_from_slice
decode_from_slice(b) == DecodeFields(b, 1, EmptyEnvelope)

\* NodeInfo::seal (node_info.rs): NodeInfo_DOMAIN and NodeInfo_CODEC are non-empty, marshal cannot fail
seal(self, keypair) ==
  LET raw_payload == marshal(self)
      unsigned == make_unsigned(NodeInfo_DOMAIN, NodeInfo_CODEC, raw_payload)
  IN [public_key |-> encode_protobuf(keypair),
      payload_type |-> NodeInfo_CODEC,
      payload |-> raw_payload,
      signature |-> sign(keypair, unsigned)]

\* a parse_envelope that rebuilds the signed bytes from the payload type the
\* envelope claims
parse_envelope_claimed_type(bytes) ==
  LET dec == decode_from_slice(bytes)
      env == dec.env
      unsigned == make_unsigned(NodeInfo_DOMAIN, env.payload_type, env.payload)
      pk == try_decode_protobuf(env.public_key)
  IN IF ~dec.ok THEN [ok |-> FALSE, err |-> "Decode", env |-> EmptyEnvelope]
     ELSE IF ~pk.ok THEN [ok |-> FALSE, err |-> "PublicKeyDecoding", env |-> EmptyEnvelope]
     ELSE IF ~verify(pk.key, unsigned, env.signature)
          THEN [ok |-> FALSE, err |-> "SignatureVerification", env |-> EmptyEnvelope]
     ELSE [ok |-> TRUE, err |-> "", env |-> env]

\* parse_envelope (envelope/mod.rs): NodeInfo there is crate::handshake::types::NodeInfo
parse_envelope(bytes) ==
  LET dec == decode_from_slice(bytes)
      env == dec.env
      unsigned == make_unsigned(NodeInfo_DOMAIN, Record_CODEC, env.payload)
      pk == try_decode_protobuf(env.public_key)
  IN IF ~dec.ok THEN [ok |-> FALSE, err |-> "Decode", env |-> EmptyEnvelope]
     ELSE IF ~pk.ok THEN [ok |-> FALSE, err |-> "PublicKeyDecoding", env |-> EmptyEnvelope]
     ELSE IF ~verify(pk.key, unsigned, env.signature)
          THEN [ok |-> FALSE, err |-> "SignatureVerification", env |-> EmptyEnvelope]
     ELSE [ok |-> TRUE, err |-> "", env |-> env]

(***************************************************************************)
(* handshake/types.rs and handshake/record/signing.rs: the Record trait    *)
(* implementation of NodeInfo, seal_record and consume_envelope.           *)
(***************************************************************************)
\* <NodeInfo as Record>::marshal_record
marshal_record(self) ==
  SerializableToJson(
    <<<<>>, self.network_id>>
    \o (IF self.metadata # <<>> THEN <<MetaToJson(self.metadata[1])>> ELSE <<>>))

\* <NodeInfo as Record>::unmarshal_record
unmarshal_record(self, data) ==
  LET ser == SerializableFromJson(data)
  IN IF ~ser.ok THEN [ok |-> FALSE, err |-> "Serialization", self |-> self]
     ELSE IF Len(ser.entries) < 2 THEN [ok |-> FALSE, err |-> "Validation", self |-> self]
     ELSE LET s1 == [self EXCEPT !.network_id = ser.entries[2]]
          IN IF Len(ser.entries) >= 3
             THEN LET meta == MetaFromJson(ser.entries[3])
                  IN IF ~meta.ok
                     THEN [ok |-> FALSE, err |-> "Serialization", self |-> s1]
                     ELSE [ok |-> TRUE, err |-> "",
                           self |-> [s1 EXCEPT !.metadata = meta.meta]]
             ELSE [ok |-> TRUE, err |-> "", self |-> s1]

\* seal_record::<NodeInfo>
seal_record(record, keypair) ==
  LET raw_payload == marshal_record(record)
      unsigned == make_unsigned(NodeInfo_DOMAIN, Record_CODEC, raw_payload)
  IN [public_key |-> encode_protobuf(keypair),
      payload_type |-> Record_CODEC,
      payload |-> raw_payload,
      signature |-> sign(keypair, unsigned)]

\* consume_envelope::<NodeInfo>: the record is unmarshalled before the key is decoded;
\* the unwrap on the decoded key panics on a malformed key
consume_envelope(bytes) ==
  LET dec == decode_from_slice(bytes)
      env == dec.env
      unsigned == make_unsigned(NodeInfo_DOMAIN, Record_CODEC, env.payload)
      rec == unmarshal_record(NodeInfoDefault, env.payload)
      pk == try_decode_protobuf(env.public_key)
      fail(e) == [ok |-> FALSE, err |-> e, env |-> EmptyEnvelope, rec |-> NodeInfoDefault]
  IN IF ~dec.ok THEN fail("Decode")
     ELSE IF ~rec.ok THEN fail(rec.err)
     ELSE IF ~pk.ok THEN fail("panic")
     ELSE IF ~verify(pk.key, unsigned, env.signature) THEN fail("SignatureVerification")
     ELSE [ok |-> TRUE, err |-> "", env |-> env, rec |-> rec.self]

\* parse_envelope (envelope.rs): NodeInfo there is crate::handshake::types::NodeInfo;
\* the unwrap on the decoded key panics on a malformed key
envelope_rs_parse_envelope(bytes) ==
  LET dec == decode_from_slice(bytes)
      env == dec.env
      unsigned == make_unsigned(NodeInfo_DOMAIN, Record_CODEC, env.payload)
      pk == try_decode_protobuf(env.public_key)
  IN IF ~dec.ok THEN [ok |-> FALSE, err |-> "Decode", env |-> EmptyEnvelope]
     ELSE IF ~pk.ok THEN [ok |-> FALSE, err |-> "panic", env |-> EmptyEnvelope]
     ELSE IF ~verify(pk.key, unsigned, env.signature)
          THEN [ok |-> FALSE, err |-> "SignatureVerification", env |-> EmptyEnvelope]
     ELSE [ok |-> TRUE, err |-> "", env |-> env]

(***************************************************************************)
(* Inputs: the identity records and keys the pipelines are run on.         *)
(***************************************************************************)
\* network ids: "", "h" and "t"
NetworkIds == {<<>>, <<104>>, <<116>>}

\* metadata values; the fields are short strings, one of them empty
Metas ==
  {[node_version |-> v, execution_node |-> <<103>>, consensus_node |-> <<112>>,
    subnets |-> sn] : v \in {<<118, 49>>, <<118, 50>>}, sn \in {<<>>, <<102, 102>>}}

Records ==
  {[network_id |-> n, metadata |-> md] :
     n \in NetworkIds, md \in {<<>>} \cup {<<m>> : m \in Metas}}

(***************************************************************************)
(* Stream codecs.  handshake/envelope/codec.rs (Codec) writes the raw      *)
(* protobuf bytes and reads to the end of the stream; handshake/codec.rs   *)
(* (EnvelopeCodec) uses length prefixes.                                   *)
(***************************************************************************)
CodecOk(env) == [ok |-> TRUE, env |-> env]
CodecErr == [ok |-> FALSE, env |-> EmptyEnvelope]

\* Codec::write_request and Codec::write_response
Codec_write_request(req) == encode_to_vec(req)
Codec_write_response(res) == encode_to_vec(res)

\* Codec::read_request: decode only
Codec_read_request(io) ==
  LET dec == decode_from_slice(io) IN IF dec.ok THEN CodecOk(dec.env) ELSE CodecErr

\* Codec::read_response: parse_envelope
Codec_read_response(io) ==
  LET p == parse_envelope(io) IN IF p.ok THEN CodecOk(p.env) ELSE CodecErr

\* read_varint_length: bytes up to the first one with the high bit clear (at most 10)
RECURSIVE VarintFrom(_, _, _, _)
VarintFrom(io, pos, mult, acc) ==
  IF pos > 10 \/ pos > Len(io) THEN [ok |-> FALSE, value |-> 0, used |-> 0]
  ELSE IF io[pos] < 128 THEN [ok |-> TRUE, value |-> acc + io[pos] * mult, used |-> pos]
  ELSE VarintFrom(io, pos + 1, mult * 128, acc + (io[pos] - 128) * mult)

read_varint_length(io) == VarintFrom(io, 1, 1, 0)

\* EnvelopeCodec::write_request: varint length prefix
EnvelopeCodec_write_request(req) == frame(encode_to_vec(req))

\* EnvelopeCodec::write_response: 4-byte big-endian length prefix
EnvelopeCodec_write_response(res) ==
  LET raw == encode_to_vec(res) IN <<0, 0, Len(raw) \div 256, Len(raw) % 256>> \o raw

\* EnvelopeCodec::read_request: 4-byte big-endian length, then that many bytes
EnvelopeCodec_read_request(io) ==
  IF Len(io) < 4 THEN CodecErr
  ELSE LET msg_len == ((io[1] * 256 + io[2]) * 256 + io[3]) * 256 + io[4]
       IN IF Len(io) - 4 < msg_len THEN CodecErr
          ELSE LET dec == decode_from_slice(SubSeq(io, 5, 4 + msg_len))
               IN IF dec.ok THEN CodecOk(dec.env) ELSE CodecErr

\* EnvelopeCodec::read_response: varint length, then that many bytes
EnvelopeCodec_read_response(io) ==
  LET l == read_varint_length(io)
  IN IF ~l.ok \/ Len(io) - l.used < l.value THEN CodecErr
     ELSE LET dec == decode_from_slice(SubSeq(io, l.used + 1, l.used + l.value))
          IN IF dec.ok THEN CodecOk(dec.env) ELSE CodecErr

(***************************************************************************)
(* The handshake behaviours: handshake/mod.rs (Behaviour, with Codec) and  *)
(* handshake/behaviour.rs (HandshakeBehaviour, with EnvelopeCodec).        *)
(* hs_impl names the one that runs.  The inner request/response behaviour  *)
(* is the substrate: hs_inner is the queue of its ready ToSwarm items.     *)
(***************************************************************************)
Peers == 1..NumPeers

\* node_info_provider.get_node_info() / local_node_info: network "h", with metadata
LocalNodeInfo ==
  [network_id |-> <<104>>,
   metadata |-> <<[node_version |-> <<118>>, execution_node |-> <<103>>,
                   consensus_node |-> <<112>>, subnets |-> <<102>>]>>]
\* the local keypair
LocalKey == 1

Completed(peer, info) == [kind |-> "Completed", peer |-> peer, info |-> info, error |-> ""]
Failed(peer, error) == [kind |-> "Failed", peer |-> peer, info |-> NodeInfoDefault, error |-> error]

\* Behaviour::sealed_node_record
sealed_node_record == seal(LocalNodeInfo, LocalKey)

\* HandshakeBehaviour::sealed_node_record
HB_sealed_node_record == seal_record(LocalNodeInfo, LocalKey)

\* a verify_node_info that accepts every network
verify_node_info_any_network(node_info) == [ok |-> TRUE, err |-> ""]

\* Behaviour::verify_node_info
verify_node_info(node_info) ==
  LET ours == LocalNodeInfo.network_id
  IN IF node_info.network_id # ours
     THEN [ok |-> FALSE, err |-> "NetworkMismatch"]
     ELSE [ok |-> TRUE, err |-> ""]

(***************************************************************************)
(* What arrives from the network: envelopes a peer may send, in any of the *)
(* stream framings.  An item of the inner behaviour names its envelope by  *)
(* its index in WireEnvelopes.                                             *)
(***************************************************************************)
\* an envelope over an arbitrary payload, signed with the given payload type
SealRaw(payload, keypair, payload_type) ==
  [public_key |-> encode_protobuf(keypair),
   payload_type |-> payload_type,
   payload |-> payload,
   signature |-> sign(keypair, make_unsigned(NodeInfo_DOMAIN, payload_type, payload))]

PeerInfoSame == [network_id |-> <<104>>, metadata |-> <<>>]
PeerInfoOther == [network_id |-> <<116>>, metadata |-> <<>>]

WireEnvelopes ==
  LET PeerKey == 2
  IN << seal_record(PeerInfoSame, PeerKey),
        seal_record(PeerInfoOther, PeerKey),
        \* the signature cut short
        [seal_record(PeerInfoSame, PeerKey) EXCEPT !.signature = <<PeerKey>>],
        \* ["", "h", "{"]: a third entry that is not a metadata object
        SealRaw(SerializableToJson(<<<<>>, <<104>>, <<123>>>>), PeerKey, Record_CODEC),
        \* a public key that does not decode
        [seal_record(PeerInfoSame, PeerKey) EXCEPT !.public_key = <<9>>] >>

EnvIds == 1..Len(WireEnvelopes)

\* the index of a received envelope (0: not one a peer sends)
EnvId(env) ==
  IF \E i \in EnvIds : WireEnvelopes[i] = env
  THEN CHOOSE i \in EnvIds : WireEnvelopes[i] = env
  ELSE 0

\* the envelope an item carries
EnvOf(it) == IF it.env \in EnvIds THEN WireEnvelopes[it.env] ELSE EmptyEnvelope

\* NodeInfo::default() after unmarshal of the payload of each envelope the
\* engine handles, computed once
Unmarshalled ==
  [env \in {sealed_node_record, EmptyEnvelope} \cup {WireEnvelopes[i] : i \in EnvIds} |->
     unmarshal(NodeInfoDefault, env.payload)]

\* Behaviour::unmarshall_and_verify: the events it pushes, in order
unmarshall_and_verify(peer_id, response) ==
  LET un == Unmarshalled[response]
      their_info == un.self
      first == IF ~un.ok THEN <<Failed(peer_id, "UnmarshalError")>> ELSE <<>>
      v == verify_node_info(their_info)
  IN first \o (IF v.ok THEN <<Completed(peer_id, their_info)>>
               ELSE <<Failed(peer_id, v.err)>>)

\* an entry of the processing log of a poll call: the substrate item, the record
\* that was checked (if any) and the events the item made the engine buffer
LogEntry(item, checked, evs) == [item |-> item, checked |-> checked, evs |-> evs]

\* a Push that puts the new events in front of the buffered ones
Push_front(st, item, checked, evs) ==
  [st EXCEPT !.events = evs \o @, !.log = @ \cup {LogEntry(item, checked, evs)}]

Push(st, item, checked, evs) ==
  [st EXCEPT !.events = @ \o evs, !.log = @ \cup {LogEntry(item, checked, evs)}]

WireStreams ==
  UNION { {Codec_write_request(WireEnvelopes[i]),
           EnvelopeCodec_write_request(WireEnvelopes[i]),
           EnvelopeCodec_write_response(WireEnvelopes[i])} : i \in EnvIds }

\* what the request codec of each engine makes of the streams
Codec_requests == {Codec_read_request(io) : io \in WireStreams}
EnvelopeCodec_requests == {EnvelopeCodec_read_request(io) : io \in WireStreams}

\* what the response codec of each engine makes of the streams
Codec_responses == {Codec_read_response(io) : io \in WireStreams}
EnvelopeCodec_responses == {EnvelopeCodec_read_response(io) : io \in WireStreams}

Item(kind, peer, id, env, chan_open) ==
  [kind |-> kind, peer |-> peer, id |-> id, env |-> env, chan_open |-> chan_open]

NoItem == Item("None", 0, 0, 0, FALSE)

\* Behaviour::handle_handshake_request
handle_handshake_request(st, it) ==
  LET response == sealed_node_record
  IN IF it.chan_open
     THEN Push(st, it, <<Unmarshalled[response].self>>,
               unmarshall_and_verify(it.peer, response))
     ELSE Push(st, it, <<>>, <<>>)

\* Behaviour::handle_handshake_response
handle_handshake_response(st, it) ==
  Push(st, it, <<Unmarshalled[EnvOf(it)].self>>,
       unmarshall_and_verify(it.peer, EnvOf(it)))

\* Behaviour::poll, the OutboundFailure and InboundFailure arms
on_outbound_failure(st, it) == Push(st, it, <<>>, <<Failed(it.peer, "Outbound")>>)
on_inbound_failure(st, it) == Push(st, it, <<>>, <<Failed(it.peer, "Inbound")>>)

\* Behaviour::poll, one GenerateEvent of the inner behaviour
Behaviour_on_event(st, it) ==
  CASE it.kind = "Request" -> handle_handshake_request(st, it)
    [] it.kind = "Response" -> handle_handshake_response(st, it)
    [] it.kind = "OutboundFailure" -> on_outbound_failure(st, it)
    [] it.kind = "InboundFailure" -> on_inbound_failure(st, it)
    [] OTHER -> st

\* HandshakeBehaviour::verify_envelope
verify_envelope(envelope) == consume_envelope(encode_to_vec(envelope))

\* verify_envelope of each envelope the engine handles, computed once
Verified ==
  [env \in {EmptyEnvelope} \cup {WireEnvelopes[i] : i \in EnvIds} |-> verify_envelope(env)]

\* the Completed or Failed event pushed after verify_envelope
HB_outcome(peer, v) ==
  IF v.ok THEN Completed(peer, v.rec) ELSE Failed(peer, "error")

\* HandshakeBehaviour::poll, the Message::Request arm
HB_on_request(st, it) ==
  LET sendfail == IF it.chan_open THEN <<>> ELSE <<Failed(it.peer, "error")>>
      v == Verified[EnvOf(it)]
  IN IF v.err = "panic" THEN [st EXCEPT !.crashed = TRUE]
     ELSE Push(st, it, IF v.ok THEN <<v.rec>> ELSE <<>>,
               sendfail \o <<HB_outcome(it.peer, v)>>)

\* HandshakeBehaviour::poll, the Message::Response arm
HB_on_response(st, it) ==
  IF it.id \in DOMAIN st.pending
  THEN LET peer == st.pending[it.id]
           v == Verified[EnvOf(it)]
           st1 == [st EXCEPT !.pending = [i \in (DOMAIN st.pending) \ {it.id} |-> st.pending[i]]]
       IN IF v.err = "panic" THEN [st1 EXCEPT !.crashed = TRUE]
          ELSE Push(st1, it, IF v.ok THEN <<v.rec>> ELSE <<>>, <<HB_outcome(peer, v)>>)
  ELSE Push(st, it, <<>>, <<>>)

\* an OutboundFailure arm that only forgets the request
HB_on_outbound_failure_silent(st, it) ==
  Push([st EXCEPT !.pending = [i \in (DOMAIN st.pending) \ {it.id} |-> st.pending[i]]],
       it, <<>>, <<>>)

\* HandshakeBehaviour::poll, the OutboundFailure arm
HB_on_outbound_failure(st, it) ==
  IF it.id \in DOMAIN st.pending
  THEN Push([st EXCEPT !.pending = [i \in (DOMAIN st.pending) \ {it.id} |-> st.pending[i]]],
            it, <<>>, <<Failed(st.pending[it.id], "Outbound failure")>>)
  ELSE Push(st, it, <<>>, <<>>)

\* HandshakeBehaviour::poll, the InboundFailure arm
HB_on_inbound_failure(st, it) ==
  Push(st, it, <<>>, <<Failed(it.peer, "Inbound failure")>>)

\* HandshakeBehaviour::poll, one GenerateEvent of the inner behaviour
HB_on_event(st, it) ==
  CASE it.kind = "Request" -> HB_on_request(st, it)
    [] it.kind = "Response" -> HB_on_response(st, it)
    [] it.kind = "OutboundFailure" -> HB_on_outbound_failure(st, it)
    [] it.kind = "InboundFailure" -> HB_on_inbound_failure(st, it)
    [] OTHER -> st

\* the while-let loop of poll: handle the ready items in order; NotifyHandler is
\* returned at once (Behaviour drops a Dial, HandshakeBehaviour returns it)
RECURSIVE Drain(_, _, _)
Drain(impl, st, inner) ==
  IF inner = <<>> \/ st.crashed THEN [st |-> st, rest |-> inner, ret |-> NoItem]
  ELSE LET it == Head(inner)
       IN IF it.kind = "NotifyHandler" \/ (it.kind = "Dial" /\ impl = "HandshakeBehaviour")
          THEN [st |-> st, rest |-> Tail(inner), ret |-> it]
          ELSE IF it.kind = "Dial" THEN Drain(impl, st, Tail(inner))
          ELSE Drain(impl,
                     IF impl = "Behaviour" THEN Behaviour_on_event(st, it)
                     ELSE HB_on_event(st, it),
                     Tail(inner))

\* what poll returns
PollResult(kind, peer, event) == [kind |-> kind, peer |-> peer, event |-> event]

HsInit ==
  /\ hs_impl \in {"Behaviour", "HandshakeBehaviour"}
  /\ hs_inner = <<>>
  /\ hs_events = <<>>
  /\ hs_pending = <<>>
  /\ hs_log = {}
  /\ hs_crashed = FALSE
  /\ hs_out = PollResult("None", 0, <<>>)
  /\ hs_next_id = 1
  /\ hs_outstanding = {}
  /\ hs_items = 0

\* the substrate makes one more item ready
Ready(it) ==
  /\ ~hs_crashed
  /\ Len(hs_inner) < MaxInner
  /\ hs_items < MaxItems
  /\ hs_inner' = Append(hs_inner, it)
  /\ hs_items' = hs_items + 1

\* on_swarm_event(ConnectionEstablished): seal the local record and send it as a
\* request, whichever side dialed; HandshakeBehaviour records the request id
HsConnectionEstablished(peer, dialer) ==
  /\ hs_next_id <= MaxRequests
  /\ Ready(Item("NotifyHandler", peer, hs_next_id, 0, FALSE))
  /\ hs_outstanding' = hs_outstanding \cup
       {[id |-> hs_next_id, peer |-> peer, dialer |-> dialer]}
  /\ hs_next_id' = hs_next_id + 1
  /\ hs_pending' = IF hs_impl = "HandshakeBehaviour"
                   THEN [i \in (DOMAIN hs_pending) \cup {hs_next_id} |->
                           IF i = hs_next_id THEN peer ELSE hs_pending[i]]
                   ELSE hs_pending
  /\ UNCHANGED <<hs_impl, hs_events, hs_log, hs_crashed, hs_out, scVars, pmVars, wrVars, vfVars, muVars>>

\* a peer's request stream is read by the codec: a Message::Request, or an
\* InboundFailure when the codec fails
HsRequestArrives(peer, r, chan_open) ==
  /\ r \in (IF hs_impl = "Behaviour" THEN Codec_requests ELSE EnvelopeCodec_requests)
  /\ Ready(IF r.ok THEN Item("Request", peer, 0, EnvId(r.env), chan_open)
              ELSE Item("InboundFailure", peer, 0, 0, FALSE))
  /\ UNCHANGED <<hs_impl, hs_events, hs_pending, hs_log, hs_crashed, hs_out,
                 hs_next_id, hs_outstanding, scVars, pmVars, wrVars, vfVars, muVars>>

\* the response stream of an outstanding request is read by the codec: a
\* Message::Response, or an OutboundFailure when the codec fails
HsResponseArrives(o, r) ==
  /\ o \in hs_outstanding
  /\ r \in (IF hs_impl = "Behaviour" THEN Codec_responses ELSE EnvelopeCodec_responses)
  /\ Ready(IF r.ok THEN Item("Response", o.peer, o.id, EnvId(r.env), FALSE)
              ELSE Item("OutboundFailure", o.peer, o.id, 0, FALSE))
  /\ hs_outstanding' = hs_outstanding \ {o}
  /\ UNCHANGED <<hs_impl, hs_events, hs_pending, hs_log, hs_crashed, hs_out, hs_next_id, scVars, pmVars, wrVars, vfVars, muVars>>

\* an outstanding request times out or its connection closes
HsOutboundFailure(o) ==
  /\ o \in hs_outstanding
  /\ Ready(Item("OutboundFailure", o.peer, o.id, 0, FALSE))
  /\ hs_outstanding' = hs_outstanding \ {o}
  /\ UNCHANGED <<hs_impl, hs_events, hs_pending, hs_log, hs_crashed, hs_out, hs_next_id, scVars, pmVars, wrVars, vfVars, muVars>>

\* an inbound exchange fails in the substrate
HsInboundFailure(peer) ==
  /\ Ready(Item("InboundFailure", peer, 0, 0, FALSE))
  /\ UNCHANGED <<hs_impl, hs_events, hs_pending, hs_log, hs_crashed, hs_out,
                 hs_next_id, hs_outstanding, scVars, pmVars, wrVars, vfVars, muVars>>

\* the inner behaviour reports ResponseSent or asks for a dial
HsInnerOther(peer, kind) ==
  /\ Ready(Item(kind, peer, 0, 0, FALSE))
  /\ UNCHANGED <<hs_impl, hs_events, hs_pending, hs_log, hs_crashed, hs_out,
                 hs_next_id, hs_outstanding, scVars, pmVars, wrVars, vfVars, muVars>>

\* Behaviour::poll / HandshakeBehaviour::poll; hs_log is the log of this call
HsPoll ==
  /\ ~hs_crashed
  /\ \E d \in {Drain(hs_impl,
                     [events |-> hs_events, pending |-> hs_pending, log |-> {},
                      crashed |-> FALSE],
                     hs_inner)} :
     LET toEmit == d.ret.kind = "None" /\ d.st.events # <<>> /\ ~d.st.crashed
     IN /\ hs_inner' = d.rest
        /\ hs_pending' = d.st.pending
        /\ hs_log' = d.st.log
        /\ hs_crashed' = d.st.crashed
        /\ hs_events' = IF toEmit THEN Tail(d.st.events) ELSE d.st.events
        /\ hs_out' = IF d.ret.kind # "None" THEN PollResult(d.ret.kind, d.ret.peer, <<>>)
                     ELSE IF toEmit
                          THEN PollResult("GenerateEvent", 0, <<Head(d.st.events)>>)
                          ELSE PollResult("Pending", 0, <<>>)
  /\ UNCHANGED <<hs_impl, hs_next_id, hs_outstanding, hs_items, scVars, pmVars, wrVars, vfVars, muVars>>

HsNext ==
  \/ \E p \in Peers, dialer \in BOOLEAN : HsConnectionEstablished(p, dialer)
  \/ \E p \in Peers, r \in Codec_requests \cup EnvelopeCodec_requests, c \in BOOLEAN :
       HsRequestArrives(p, r, c)
  \/ \E o \in hs_outstanding, r \in Codec_responses \cup EnvelopeCodec_responses :
       HsResponseArrives(o, r)
  \/ \E o \in hs_outstanding : HsOutboundFailure(o)
  \/ \E p \in Peers : HsInboundFailure(p)
  \/ \E p \in Peers, kind \in {"ResponseSent", "Dial"} : HsInnerOther(p, kind)
  \/ HsPoll

(***************************************************************************)
(* test_node_info_seal_consume (node_info.rs: seal, encode_to_vec,         *)
(* parse_envelope, unmarshal; types.rs: seal_record, encode_to_vec,        *)
(* consume_envelope).  sc_sealer and sc_parser name the functions used; a  *)
(* node may also receive what the other implementation sealed.  A failed   *)
(* expect panics.                                                          *)
(***************************************************************************)
NoParse == [ok |-> FALSE, err |-> "", env |-> EmptyEnvelope]
NoUnmarshal == [ok |-> FALSE, err |-> "", self |-> NodeInfoDefault]

ScInit ==
  /\ sc_pc = "start"
  /\ sc_sealer \in {"seal", "seal_record"}
  /\ sc_parser \in {"parse_envelope", "consume_envelope"}
  /\ sc_rec \in Records
  /\ sc_key \in Keys
  /\ sc_env = EmptyEnvelope
  /\ sc_data = <<>>
  /\ sc_parsed = NoParse
  /\ sc_info = NoUnmarshal

ScSeal ==
  /\ sc_pc = "start"
  /\ sc_env' = IF sc_sealer = "seal" THEN seal(sc_rec, sc_key)
               ELSE seal_record(sc_rec, sc_key)
  /\ sc_pc' = "sealed"
  /\ UNCHANGED <<sc_sealer, sc_parser, sc_rec, sc_key, sc_data, sc_parsed, sc_info, hsVars, pmVars, wrVars, vfVars, muVars>>

ScEncode ==
  /\ sc_pc = "sealed"
  /\ sc_data' = encode_to_vec(sc_env)
  /\ sc_pc' = "encoded"
  /\ UNCHANGED <<sc_sealer, sc_parser, sc_rec, sc_key, sc_env, sc_parsed, sc_info, hsVars, pmVars, wrVars, vfVars, muVars>>

\* parse_envelope(&data).expect(..), then unmarshal(&parsed_env.payload).expect(..)
ScParse ==
  /\ sc_pc = "encoded"
  /\ sc_parser = "parse_envelope"
  /\ sc_parsed' = parse_envelope(sc_data)
  /\ sc_pc' = IF sc_parsed'.ok THEN "parsed" ELSE "panicked"
  /\ UNCHANGED <<sc_sealer, sc_parser, sc_rec, sc_key, sc_env, sc_data, sc_info, hsVars, pmVars, wrVars, vfVars, muVars>>

ScUnmarshal ==
  /\ sc_pc = "parsed"
  /\ sc_info' = unmarshal(NodeInfoDefault, sc_parsed.env.payload)
  /\ sc_pc' = IF sc_info'.ok THEN "done" ELSE "panicked"
  /\ UNCHANGED <<sc_sealer, sc_parser, sc_rec, sc_key, sc_env, sc_data, sc_parsed, hsVars, pmVars, wrVars, vfVars, muVars>>

\* consume_envelope(&data).expect(..)
ScConsume ==
  /\ sc_pc = "encoded"
  /\ sc_parser = "consume_envelope"
  /\ LET r == consume_envelope(sc_data)
     IN /\ sc_parsed' = [ok |-> r.ok, err |-> r.err, env |-> r.env]
        /\ sc_info' = [ok |-> r.ok, err |-> r.err, self |-> r.rec]
        /\ sc_pc' = IF r.ok THEN "done" ELSE "panicked"
  /\ UNCHANGED <<sc_sealer, sc_parser, sc_rec, sc_key, sc_env, sc_data, hsVars, pmVars, wrVars, vfVars, muVars>>

ScNext == ScSeal \/ ScEncode \/ ScParse \/ ScUnmarshal \/ ScConsume

(***************************************************************************)
(* The marshal/unmarshal pipeline (test_node_info_marshal_unmarshal in     *)
(* node_info.rs and types.rs): a record is marshalled, or a document       *)
(* arrives from a peer, and the bytes are unmarshalled into parsed_rec,    *)
(* the same struct for every call.                                         *)
(***************************************************************************)
\* the documents a peer may send: entry lists of every length, one with a
\* third entry that is not metadata JSON, and bytes that are not a document
WireDocuments ==
  LET meta == MetaToJson(CHOOSE m \in Metas : m.subnets # <<>>)
  IN {SerializableToJson(<<>>),
      SerializableToJson(<<<<>>>>),
      SerializableToJson(<<<<>>, <<104>>>>),
      SerializableToJson(<<<<>>, <<104>>, meta>>),
      SerializableToJson(<<<<>>, <<116>>, meta, <<120>>>>),
      SerializableToJson(<<<<>>, <<104>>, <<123>>>>),
      <<123>>}

NoResult == [ok |-> FALSE, err |-> ""]

MrInit ==
  /\ mr_pc = "start"
  /\ mr_impl \in {"NodeInfo", "Record"}
  /\ mr_x \in Records
  /\ mr_data = <<>>
  /\ mr_src = "none"
  /\ mr_before = NodeInfoDefault
  /\ mr_rec = NodeInfoDefault
  /\ mr_res = NoResult
  /\ mr_calls = 0

\* current_data.marshal() / current_data.marshal_record()
MrMarshal ==
  /\ mr_pc \in {"start", "unmarshalled"}
  /\ mr_calls < MaxUnmarshals
  /\ mr_data' = IF mr_impl = "NodeInfo" THEN marshal(mr_x) ELSE marshal_record(mr_x)
  /\ mr_src' = "marshal"
  /\ mr_pc' = "data"
  /\ UNCHANGED <<mr_impl, mr_x, mr_before, mr_rec, mr_res, mr_calls,
                 cd_pc, cd_codec, cd_kind, cd_env, cd_io, cd_res, scVars, hsVars, pmVars, vfVars, muVars>>

\* old_serialized_data: bytes another producer wrote
MrReceive(data) ==
  /\ mr_pc \in {"start", "unmarshalled"}
  /\ mr_calls < MaxUnmarshals
  /\ mr_data' = data
  /\ mr_src' = "wire"
  /\ mr_pc' = "data"
  /\ UNCHANGED <<mr_impl, mr_x, mr_before, mr_rec, mr_res, mr_calls,
                 cd_pc, cd_codec, cd_kind, cd_env, cd_io, cd_res, scVars, hsVars, pmVars, vfVars, muVars>>

\* parsed_rec.unmarshal(&data) / parsed_rec.unmarshal_record(&data)
MrUnmarshal ==
  /\ mr_pc = "data"
  /\ \E r \in {IF mr_impl = "NodeInfo" THEN unmarshal(mr_rec, mr_data)
                 ELSE unmarshal_record(mr_rec, mr_data)} :
       /\ mr_rec' = r.self
       /\ mr_res' = [ok |-> r.ok, err |-> r.err]
  /\ mr_before' = mr_rec
  /\ mr_calls' = mr_calls + 1
  /\ mr_pc' = "unmarshalled"
  /\ UNCHANGED <<mr_impl, mr_x, mr_data, mr_src,
                 cd_pc, cd_codec, cd_kind, cd_env, cd_io, cd_res, scVars, hsVars, pmVars, vfVars, muVars>>

MrNext ==
  \/ MrMarshal
  \/ \E data \in WireDocuments : MrReceive(data)
  \/ MrUnmarshal

(***************************************************************************)
(* One message through a stream codec: a node writes an envelope with      *)
(* write_request or write_response and closes the stream; its peer, which  *)
(* runs the same codec, reads it with read_request or read_response.       *)
(***************************************************************************)
\* the envelopes a node sends: records sealed by either sealer
CodecEnvelopes ==
  {seal(r, k) : r \in Records, k \in Keys} \cup {seal_record(r, k) : r \in Records, k \in Keys}

CdInit ==
  /\ cd_pc = "start"
  /\ cd_codec \in {"Codec", "EnvelopeCodec"}
  /\ cd_kind = "none"
  /\ cd_env \in CodecEnvelopes
  /\ cd_io = <<>>
  /\ cd_res = CodecErr

CdWriteRequest ==
  /\ cd_pc = "start"
  /\ cd_io' = IF cd_codec = "Codec" THEN Codec_write_request(cd_env)
              ELSE EnvelopeCodec_write_request(cd_env)
  /\ cd_kind' = "request"
  /\ cd_pc' = "written"
  /\ UNCHANGED <<cd_codec, cd_env, cd_res,
                 mr_pc, mr_impl, mr_x, mr_data, mr_src, mr_before, mr_rec, mr_res, mr_calls,
                 scVars, hsVars, pmVars, vfVars, muVars>>

CdWriteResponse ==
  /\ cd_pc = "start"
  /\ cd_io' = IF cd_codec = "Codec" THEN Codec_write_response(cd_env)
              ELSE EnvelopeCodec_write_response(cd_env)
  /\ cd_kind' = "response"
  /\ cd_pc' = "written"
  /\ UNCHANGED <<cd_codec, cd_env, cd_res,
                 mr_pc, mr_impl, mr_x, mr_data, mr_src, mr_before, mr_rec, mr_res, mr_calls,
                 scVars, hsVars, pmVars, vfVars, muVars>>

CdReadRequest ==
  /\ cd_pc = "written" /\ cd_kind = "request"
  /\ cd_res' = IF cd_codec = "Codec" THEN Codec_read_request(cd_io)
               ELSE EnvelopeCodec_read_request(cd_io)
  /\ cd_pc' = "read"
  /\ UNCHANGED <<cd_codec, cd_kind, cd_env, cd_io,
                 mr_pc, mr_impl, mr_x, mr_data, mr_src, mr_before, mr_rec, mr_res, mr_calls,
                 scVars, hsVars, pmVars, vfVars, muVars>>

CdReadResponse ==
  /\ cd_pc = "written" /\ cd_kind = "response"
  /\ cd_res' = IF cd_codec = "Codec" THEN Codec_read_response(cd_io)
               ELSE EnvelopeCodec_read_response(cd_io)
  /\ cd_pc' = "read"
  /\ UNCHANGED <<cd_codec, cd_kind, cd_env, cd_io,
                 mr_pc, mr_impl, mr_x, mr_data, mr_src, mr_before, mr_rec, mr_res, mr_calls,
                 scVars, hsVars, pmVars, vfVars, muVars>>

CdNext == CdWriteRequest \/ CdWriteResponse \/ CdReadRequest \/ CdReadResponse

(***************************************************************************)
(* Verification of a received envelope.  A peer packages an envelope, not  *)
(* necessarily an honest one, and sends its protobuf bytes; the node runs  *)
(* one of its verification routines on them: parse_envelope of             *)
(* envelope/mod.rs, parse_envelope of envelope.rs or consume_envelope.     *)
(***************************************************************************)
\* one bit of the byte at position i flipped
FlipAt(s, i) == [s EXCEPT ![i] = IF @ % 2 = 0 THEN @ + 1 ELSE @ - 1]

\* the byte strings that differ from s by one flipped bit, a dropped last byte
\* or an added byte
AlteredBytes(s) ==
  {FlipAt(s, i) : i \in 1..Len(s)}
  \cup (IF s = <<>> THEN {} ELSE {SubSeq(s, 1, Len(s) - 1)})
  \cup {Append(s, 0)}

\* an envelope whose signature is made over the given domain and payload type
SealOver(payload, keypair, domain, payload_type) ==
  [public_key |-> encode_protobuf(keypair),
   payload_type |-> payload_type,
   payload |-> payload,
   signature |-> sign(keypair, make_unsigned(domain, payload_type, payload))]

\* the records the peer seals: without metadata, and with metadata
VfRecords ==
  {[network_id |-> <<104>>, metadata |-> <<>>],
   [network_id |-> <<116>>,
    metadata |-> <<[node_version |-> <<118>>, execution_node |-> <<103>>,
                    consensus_node |-> <<112>>, subnets |-> <<>>]>>]}

\* payload-type fields a peer may put into an envelope
PayloadTypes == {Record_CODEC, NodeInfo_CODEC, <<>>, <<120>>}

\* what a peer may send, with how it was made
ReceivedEnvelopes ==
  UNION {
    LET e == seal_record(r, k)
    IN {[env |-> e, how |-> "sealed"]}
       \cup {[env |-> [e EXCEPT !.payload_type = t], how |-> "payload_type"] :
               t \in PayloadTypes \ {e.payload_type}}
       \cup {[env |-> [e EXCEPT !.payload = p], how |-> "payload"] :
               p \in AlteredBytes(e.payload)}
       \cup {[env |-> [e EXCEPT !.signature = s], how |-> "signature"] :
               s \in AlteredBytes(e.signature)}
       \cup {[env |-> SealOver(e.payload, k, NodeInfo_DOMAIN, t), how |-> "tag"] :
               t \in PayloadTypes \ {Record_CODEC}}
       \cup {[env |-> [SealOver(e.payload, k, d, Record_CODEC) EXCEPT !.payload_type = t],
              how |-> "domain"] : d \in {<<>>, <<120>>}, t \in {Record_CODEC}}
       \cup {[env |-> [e EXCEPT !.public_key = b], how |-> "public_key"] :
               b \in {<<>>, <<9>>, <<8, 2, 18, 1, 0>>, <<8, 2, 18, 1>>}}
    : r \in VfRecords, k \in Keys }

VerifyRoutines == {"envelope::parse_envelope", "envelope_rs::parse_envelope", "consume_envelope"}

\* the outcome of a routine: Ok with the envelope (and the record), an error,
\* or a panic
VerifyResult(routine, bytes) ==
  CASE routine = "envelope::parse_envelope" ->
         LET p == parse_envelope(bytes)
         IN [ok |-> p.ok, err |-> p.err, env |-> p.env, rec |-> NodeInfoDefault]
    [] routine = "envelope_rs::parse_envelope" ->
         LET p == envelope_rs_parse_envelope(bytes)
         IN [ok |-> p.ok, err |-> p.err, env |-> p.env, rec |-> NodeInfoDefault]
    [] OTHER -> consume_envelope(bytes)

NoVerifyResult == [ok |-> FALSE, err |-> "", env |-> EmptyEnvelope, rec |-> NodeInfoDefault]

VfInit ==
  /\ vf_pc = "start"
  /\ vf_routine \in VerifyRoutines
  /\ \E m \in ReceivedEnvelopes : vf_env = m.env /\ vf_how = m.how
  /\ vf_data = <<>>
  /\ vf_res = NoVerifyResult

\* the peer writes the envelope: Envelope::encode_to_vec
VfSend ==
  /\ vf_pc = "start"
  /\ vf_data' = encode_to_vec(vf_env)
  /\ vf_pc' = "received"
  /\ UNCHANGED <<vf_routine, vf_env, vf_how, vf_res, scVars, hsVars, pmVars, wrVars, muVars>>

\* the node verifies the bytes; a panic aborts the process
VfVerify ==
  /\ vf_pc = "received"
  /\ vf_res' = VerifyResult(vf_routine, vf_data)
  /\ vf_pc' = IF vf_res'.err = "panic" THEN "panicked" ELSE "verified"
  /\ UNCHANGED <<vf_routine, vf_env, vf_how, vf_data, scVars, hsVars, pmVars, wrVars, muVars>>

VfNext == VfSend \/ VfVerify

(***************************************************************************)
(* f32 arithmetic of the peer-count thresholds.  An f32 value is m * 2^-e  *)
(* with a significand m of at most 24 bits; every result is rounded to the *)
(* nearest such value, ties to even.                                       *)
(***************************************************************************)
F32(m, e) == [m |-> m, e |-> e]

RECURSIVE Pow2(_)
Pow2(n) == IF n <= 0 THEN 1 ELSE 2 * Pow2(n - 1)

\* how many low bits n has beyond a 24-bit significand
RECURSIVE ExcessBits(_)
ExcessBits(n) == IF n < 16777216 THEN 0 ELSE 1 + ExcessBits(n \div 2)

F32Round(n, e) ==
  LET s == ExcessBits(n)
      d == Pow2(s)
      q == n \div d
      r == n % d
      up == s > 0 /\ (2 * r > d \/ (2 * r = d /\ q % 2 = 1))
  IN F32(IF up THEN q + 1 ELSE q, e - s)

F32Add(a, b) ==
  LET e == IF a.e > b.e THEN a.e ELSE b.e
  IN F32Round(a.m * Pow2(e - a.e) + b.m * Pow2(e - b.e), e)

\* `n as f32 * a`, for n below 2^24
F32MulUsize(n, a) == F32Round(n * a.m, a.e)

\* a / 2.0
F32Half(a) == F32(a.m, a.e + 1)

\* a.ceil() as usize
F32Ceil(a) == (a.m + Pow2(a.e) - 1) \div Pow2(a.e)

F32One == F32(1, 0)

\* 0.1f32
PEER_EXCESS_FACTOR == F32(13421773, 27)
\* 0.3f32
TARGET_OUTBOUND_ONLY_FACTOR == F32(10066330, 25)
\* 0.2f32
MIN_OUTBOUND_ONLY_FACTOR == F32(13421773, 26)
\* 0.2f32
PRIORITY_PEER_EXCESS == F32(13421773, 26)

saturating_sub(a, b) == IF a > b THEN a - b ELSE 0

(***************************************************************************)
(* The peer store (peer_manager/peerdb.rs), through the interface the peer *)
(* manager uses.  A store holds the status of each known peer, the banned  *)
(* peers, the peers with a future duty, the peers with a cached discovery  *)
(* deadline, and `others`: how many further peers it holds as connected    *)
(* inbound.                                                                *)
(***************************************************************************)
\* the peers the peer manager hears of: discovered, dialed or connecting
Enrs == {1, 2}

ConnectedStatuses == {"ConnectedIn", "ConnectedOut"}

Statuses == {"Disconnected", "Dialing"} \cup ConnectedStatuses

PeerDB_new(others, banned, future_duty) ==
  [status |-> [p \in Enrs |-> "Disconnected"],
   banned |-> banned,
   future_duty |-> future_duty,
   min_ttl |-> {},
   others |-> others]

should_dial(db, p) ==
  db.status[p] \notin ConnectedStatuses \cup {"Dialing"} /\ p \notin db.banned

dialing_peer(db, p) == [db EXCEPT !.status[p] = "Dialing"]

connect_ingoing(db, p) == [db EXCEPT !.status[p] = "ConnectedIn"]

connect_outgoing(db, p) == [db EXCEPT !.status[p] = "ConnectedOut"]

\* purged: the peers whose ban ended as a consequence, as the store reports them
PeerDB_inject_disconnect(db, p, purged) ==
  [db EXCEPT !.status[p] = "Disconnected",
             !.banned = @ \ {purged[i] : i \in 1..Len(purged)}]

is_connected(db, p) == db.status[p] \in ConnectedStatuses

is_connected_or_disconnecting(db, p) ==
  db.status[p] \in ConnectedStatuses \cup {"Disconnecting"}

has_future_duty(db, p) == p \in db.future_duty

update_min_ttl(db, p) == [db EXCEPT !.min_ttl = @ \cup {p}]

\* stale: the peers whose dial is older than the dial timeout
cleanup_dialing_peers(db, stale) ==
  [db EXCEPT !.status = [p \in Enrs |->
     IF p \in stale /\ @[p] = "Dialing" THEN "Disconnected" ELSE @[p]]]

connected_peer_ids(db) == {p \in Enrs : db.status[p] \in ConnectedStatuses}

PeerDB_connected_or_dialing_peers(db) ==
  {p \in Enrs : db.status[p] \in ConnectedStatuses \cup {"Dialing"}}

PeerDB_connected_outbound_only_peers(db) == {p \in Enrs : db.status[p] = "ConnectedOut"}

(***************************************************************************)
(* The peer manager (peer_manager/mod.rs, network_behaviour.rs).  `self`   *)
(* is the PeerManager struct; an operator that changes it returns the new  *)
(* struct.  An Enr is named by its peer id.                                *)
(***************************************************************************)
\* the configurations and stores a run starts from: small targets
PmConfigs ==
  { [target_peer_count |-> 1, discovery_enabled |-> TRUE, others |-> 0,
     banned |-> {}, future_duty |-> {}],
    [target_peer_count |-> 1, discovery_enabled |-> TRUE, others |-> 0,
     banned |-> {2}, future_duty |-> {1}],
    [target_peer_count |-> 2, discovery_enabled |-> FALSE, others |-> 0,
     banned |-> {}, future_duty |-> {}] }

\* a target of 50 with a store that already holds many connected peers
Pm50Configs ==
  { [target_peer_count |-> 50, discovery_enabled |-> TRUE, others |-> 54,
     banned |-> {}, future_duty |-> {}],
    [target_peer_count |-> 50, discovery_enabled |-> TRUE, others |-> 64,
     banned |-> {}, future_duty |-> {1}] }

\* a target of 50 with stores below the target, between target and limits, and
\* above the limits, discovery on and off
PmCountConfigs ==
  Pm50Configs \cup
  { [target_peer_count |-> 50, discovery_enabled |-> TRUE, others |-> 40,
     banned |-> {}, future_duty |-> {}],
    [target_peer_count |-> 50, discovery_enabled |-> FALSE, others |-> 40,
     banned |-> {}, future_duty |-> {}] }

TargetCounts == {cfg.target_peer_count : cfg \in PmConfigs \cup Pm50Configs} \cup 0..MaxTarget

PmEvent(kind, peer, n) == [kind |-> kind, peer |-> peer, n |-> n]

\* PeerManager::new
PeerManager_new(cfg, db) ==
  [target_peers_count |-> cfg.target_peer_count,
   peers_to_dial |-> <<>>,
   events |-> <<>>,
   inbound_ping_peers |-> {},
   outbound_ping_peers |-> {},
   status_peers |-> {},
   peers |-> db,
   discovery_enabled |-> cfg.discovery_enabled]

\* the five threshold functions, for a target count
max_peers_of(target_peers_count) ==
  F32Ceil(F32MulUsize(target_peers_count, F32Add(F32One, PEER_EXCESS_FACTOR)))

max_priority_peers_of(target_peers_count) ==
  F32Ceil(F32MulUsize(target_peers_count,
                      F32Add(F32Add(F32One, PEER_EXCESS_FACTOR), PRIORITY_PEER_EXCESS)))

min_outbound_only_peers_of(target_peers_count) ==
  F32Ceil(F32MulUsize(target_peers_count, MIN_OUTBOUND_ONLY_FACTOR))

target_outbound_peers_of(target_peers_count) ==
  F32Ceil(F32MulUsize(target_peers_count, TARGET_OUTBOUND_ONLY_FACTOR))

max_outbound_dialing_peers_of(target_peers_count) ==
  F32Ceil(F32MulUsize(target_peers_count,
                      F32Add(F32Add(F32One, PEER_EXCESS_FACTOR),
                             F32Half(PRIORITY_PEER_EXCESS))))

\* the thresholds of the target counts in use, computed once
Thresholds ==
  [t \in TargetCounts |->
     [max_peers |-> max_peers_of(t),
      max_priority_peers |-> max_priority_peers_of(t),
      min_outbound_only_peers |-> min_outbound_only_peers_of(t),
      target_outbound_peers |-> target_outbound_peers_of(t),
      max_outbound_dialing_peers |-> max_outbound_dialing_peers_of(t)]]

max_peers(self) == Thresholds[self.target_peers_count].max_peers

max_priority_peers(self) == Thresholds[self.target_peers_count].max_priority_peers

min_outbound_only_peers(self) == Thresholds[self.target_peers_count].min_outbound_only_peers

target_outbound_peers(self) == Thresholds[self.target_peers_count].target_outbound_peers

max_outbound_dialing_peers(self) ==
  Thresholds[self.target_peers_count].max_outbound_dialing_peers

connected_peers(self) == self.peers.others + Cardinality(connected_peer_ids(self.peers))

connected_outbound_only_peers(self) ==
  Cardinality(PeerDB_connected_outbound_only_peers(self.peers))

connected_or_dialing_peers(self) ==
  self.peers.others + Cardinality(PeerDB_connected_or_dialing_peers(self.peers))

\* a variant of dial_peer that queues the peer without asking the store
dial_peer_always(self, enr) ==
  [self |-> [self EXCEPT !.peers_to_dial = Append(@, enr)], ret |-> TRUE]

\* PeerManager::dial_peer
dial_peer(self, enr) ==
  IF should_dial(self.peers, enr)
  THEN [self |-> [self EXCEPT !.peers_to_dial = Append(@, enr)], ret |-> TRUE]
  ELSE [self |-> self, ret |-> FALSE]

\* a variant of maintain_peer_count whose first branch subtracts the connected
\* peers only
maintain_peer_count_connected(self, dialing_peers) ==
  IF self.discovery_enabled
  THEN LET peer_count == connected_or_dialing_peers(self)
           outbound_only_peer_count == connected_outbound_only_peers(self)
           wanted_peers ==
             IF peer_count < saturating_sub(self.target_peers_count, dialing_peers)
             THEN saturating_sub(max_peers(self), dialing_peers) - connected_peers(self)
             ELSE IF outbound_only_peer_count < min_outbound_only_peers(self)
                     /\ peer_count < max_outbound_dialing_peers(self)
                  THEN saturating_sub(saturating_sub(max_outbound_dialing_peers(self),
                                                     dialing_peers),
                                      peer_count)
                  ELSE 0
       IN IF wanted_peers # 0
          THEN [self EXCEPT !.events = Append(@, PmEvent("DiscoverPeers", 0, wanted_peers))]
          ELSE self
  ELSE self

\* a variant of maintain_peer_count whose first test does not take the dialing
\* peers off the target
maintain_peer_count_unadjusted(self, dialing_peers) ==
  IF self.discovery_enabled
  THEN LET peer_count == connected_or_dialing_peers(self)
           outbound_only_peer_count == connected_outbound_only_peers(self)
           wanted_peers ==
             IF peer_count < self.target_peers_count
             THEN saturating_sub(max_peers(self), dialing_peers) - peer_count
             ELSE IF outbound_only_peer_count < min_outbound_only_peers(self)
                     /\ peer_count < max_outbound_dialing_peers(self)
                  THEN saturating_sub(saturating_sub(max_outbound_dialing_peers(self),
                                                     dialing_peers),
                                      peer_count)
                  ELSE 0
       IN IF wanted_peers # 0
          THEN [self EXCEPT !.events = Append(@, PmEvent("DiscoverPeers", 0, wanted_peers))]
          ELSE self
  ELSE self

\* PeerManager::maintain_peer_count
maintain_peer_count(self, dialing_peers) ==
  IF self.discovery_enabled
  THEN LET peer_count == connected_or_dialing_peers(self)
           outbound_only_peer_count == connected_outbound_only_peers(self)
           wanted_peers ==
             IF peer_count < saturating_sub(self.target_peers_count, dialing_peers)
             THEN saturating_sub(max_peers(self), dialing_peers) - peer_count
             ELSE IF outbound_only_peer_count < min_outbound_only_peers(self)
                     /\ peer_count < max_outbound_dialing_peers(self)
                  THEN saturating_sub(saturating_sub(max_outbound_dialing_peers(self),
                                                     dialing_peers),
                                      peer_count)
                  ELSE 0
       IN IF wanted_peers # 0
          THEN [self EXCEPT !.events = Append(@, PmEvent("DiscoverPeers", 0, wanted_peers))]
          ELSE self
  ELSE self

\* a variant of the admission test in which a deadline gives no priority
admit_condition_capped(queued, has_min_ttl, connected_or_dialing, to_dial_peers, max) ==
  ~queued /\ connected_or_dialing + to_dial_peers < max

\* peers_discovered: whether a result is handed to dial_peer
admit_condition(queued, has_min_ttl, connected_or_dialing, to_dial_peers, max) ==
  ~queued /\ (has_min_ttl \/ connected_or_dialing + to_dial_peers < max)

\* what peers_discovered decided for one result
Decision(enr, has_min_ttl, count, queued, dialable, admitted) ==
  [enr |-> enr, min_ttl |-> has_min_ttl, count |-> count, queued |-> queued,
   dialable |-> dialable, admitted |-> admitted]

\* peers_discovered: the for loop over the results, in iteration order
RECURSIVE DiscoverLoop(_, _, _, _, _)
DiscoverLoop(self, results, to_dial_peers, connected_or_dialing, decisions) ==
  IF results = <<>>
  THEN [self |-> self, to_dial_peers |-> to_dial_peers, decisions |-> decisions]
  ELSE LET enr == Head(results)[1]
           has_min_ttl == Head(results)[2]
           queued == Contains(self.peers_to_dial, enr)
           dialable == should_dial(self.peers, enr)
       IN IF admit_condition(queued, has_min_ttl, connected_or_dialing, to_dial_peers,
                             max_peers(self))
          THEN LET s1 == IF has_min_ttl
                         THEN [self EXCEPT !.peers = update_min_ttl(@, enr)]
                         ELSE self
                   d == dial_peer(s1, enr)
               IN DiscoverLoop(d.self, Tail(results),
                               IF d.ret THEN to_dial_peers + 1 ELSE to_dial_peers,
                               connected_or_dialing,
                               decisions \cup
                                 {Decision(enr, has_min_ttl,
                                           connected_or_dialing + to_dial_peers,
                                           queued, dialable, d.ret)})
          ELSE DiscoverLoop(self, Tail(results), to_dial_peers, connected_or_dialing,
                            decisions \cup
                              {Decision(enr, has_min_ttl,
                                        connected_or_dialing + to_dial_peers,
                                        queued, dialable, FALSE)})

\* a variant of the test that skips the follow-up query after every non-empty batch
no_useful_results_nonempty(results_count, to_dial_peers) ==
  results_count > 0

\* peers_discovered: a query that returned results none of which is dialed
no_useful_results(results_count, to_dial_peers) ==
  results_count > 0 /\ to_dial_peers = 0

\* PeerManager::peers_discovered
peers_discovered(self, results) ==
  LET loop == DiscoverLoop(self, results, 0, connected_or_dialing_peers(self), {})
  IN [self |-> IF no_useful_results(Len(results), loop.to_dial_peers)
               THEN loop.self
               ELSE maintain_peer_count(loop.self, loop.to_dial_peers),
      to_dial_peers |-> loop.to_dial_peers,
      decisions |-> loop.decisions]

\* PeerManager::inject_disconnect
inject_disconnect(self, peer_id, purged) ==
  [self EXCEPT !.peers = PeerDB_inject_disconnect(@, peer_id, purged),
               !.inbound_ping_peers = @ \ {peer_id},
               !.outbound_ping_peers = @ \ {peer_id},
               !.status_peers = @ \ {peer_id},
               !.events = @ \o [i \in 1..Len(purged) |-> PmEvent("UnBanned", purged[i], 0)]]

\* a variant of inject_peer_connection that arms no status timer
inject_peer_connection_no_status(self, peer_id, connection) ==
  CASE connection = "Dialing" ->
         [self EXCEPT !.peers = dialing_peer(@, peer_id)]
    [] connection = "IngoingConnected" ->
         [self EXCEPT !.peers = connect_ingoing(@, peer_id),
                      !.inbound_ping_peers = @ \cup {peer_id}]
    [] connection = "OutgoingConnected" ->
         [self EXCEPT !.peers = connect_outgoing(@, peer_id),
                      !.outbound_ping_peers = @ \cup {peer_id}]

\* PeerManager::inject_peer_connection
inject_peer_connection(self, peer_id, connection) ==
  CASE connection = "Dialing" ->
         [self EXCEPT !.peers = dialing_peer(@, peer_id)]
    [] connection = "IngoingConnected" ->
         [self EXCEPT !.peers = connect_ingoing(@, peer_id),
                      !.inbound_ping_peers = @ \cup {peer_id},
                      !.status_peers = @ \cup {peer_id}]
    [] connection = "OutgoingConnected" ->
         [self EXCEPT !.peers = connect_outgoing(@, peer_id),
                      !.outbound_ping_peers = @ \cup {peer_id},
                      !.status_peers = @ \cup {peer_id}]

\* a variant of the inbound admission in which a future duty gives no exemption
handle_established_inbound_connection_capped(self, peer_id) ==
  connected_or_dialing_peers(self) < max_peers(self)

\* handle_established_inbound_connection: TRUE when the connection is allowed
handle_established_inbound_connection(self, peer_id) ==
  ~(connected_or_dialing_peers(self) >= max_peers(self)
    /\ ~has_future_duty(self.peers, peer_id))

\* a variant of the outbound admission that counts the dialing peers as well
handle_established_outbound_connection_dialing(self, peer_id) ==
  ~(connected_or_dialing_peers(self) >= max_outbound_dialing_peers(self)
    /\ ~has_future_duty(self.peers, peer_id))

\* a variant of the outbound admission that allows every connection
handle_established_outbound_connection_open(self, peer_id) == TRUE

\* handle_established_outbound_connection: TRUE when the connection is allowed
handle_established_outbound_connection(self, peer_id) ==
  ~(connected_peers(self) >= max_outbound_dialing_peers(self)
    /\ ~has_future_duty(self.peers, peer_id))

\* PeerManager::on_connection_established
on_connection_established(self, peer_id, endpoint) ==
  IF endpoint = "Listener"
  THEN [inject_peer_connection(self, peer_id, "IngoingConnected")
          EXCEPT !.events = Append(@, PmEvent("PeerConnectedIncoming", peer_id, 0))]
  ELSE [inject_peer_connection(self, peer_id, "OutgoingConnected")
          EXCEPT !.events = Append(@, PmEvent("PeerConnectedOutgoing", peer_id, 0))]

\* a variant of on_connection_closed that does the bookkeeping for every
\* closed connection, whether or not others remain
on_connection_closed_every(self, peer_id, remaining_established, purged) ==
  inject_disconnect(
    IF is_connected_or_disconnecting(self.peers, peer_id)
    THEN [self EXCEPT !.events = Append(@, PmEvent("PeerDisconnected", peer_id, 0))]
    ELSE self,
    peer_id, purged)

\* PeerManager::on_connection_closed
on_connection_closed(self, peer_id, remaining_established, purged) ==
  IF remaining_established > 0 THEN self
  ELSE inject_disconnect(
         IF is_connected_or_disconnecting(self.peers, peer_id)
         THEN [self EXCEPT !.events = Append(@, PmEvent("PeerDisconnected", peer_id, 0))]
         ELSE self,
         peer_id, purged)

\* a variant of on_dial_failure that does not ask whether the peer is connected
on_dial_failure_unchecked(self, peer_id, purged) ==
  IF peer_id # 0 THEN inject_disconnect(self, peer_id, purged) ELSE self

\* PeerManager::on_dial_failure; peer 0 is None
on_dial_failure(self, peer_id, purged) ==
  IF peer_id # 0 /\ ~is_connected(self.peers, peer_id)
  THEN inject_disconnect(self, peer_id, purged)
  ELSE self

\* a variant of heartbeat that leaves the dialing peers alone
heartbeat_no_cleanup(self, stale) == maintain_peer_count(self, 0)

\* PeerManager::heartbeat
heartbeat(self, stale) ==
  [maintain_peer_count(self, 0) EXCEPT !.peers = cleanup_dialing_peers(@, stale)]

\* poll: `while self.heartbeat.poll_tick(cx).is_ready()`, one stale set per tick
RECURSIVE HeartbeatTicks(_, _)
HeartbeatTicks(self, ticks) ==
  IF ticks = <<>> THEN self
  ELSE HeartbeatTicks(heartbeat(self, Head(ticks)), Tail(ticks))

\* poll: a ping timer loop; every expired peer is re-inserted and pinged
PingLoop(self, due) ==
  [self EXCEPT !.events = @ \o [i \in 1..Len(due) |-> PmEvent("Ping", due[i], 0)]]

\* a variant of the release that takes the newest event
release_event_newest(events) ==
  [event |-> events[Len(events)], rest |-> SubSeq(events, 1, Len(events) - 1)]

\* poll: `self.events.remove(0)`
release_event(events) == [event |-> Head(events), rest |-> Tail(events)]

PmPollResult(kind, peer, event) == [kind |-> kind, peer |-> peer, event |-> event]

\* NetworkBehaviour::poll
poll(self, ticks, due_inbound, due_outbound) ==
  LET s1 == HeartbeatTicks(self, ticks)
      s2 == PingLoop(s1, due_inbound)
      s3 == PingLoop(s2, due_outbound)
  IN IF s3.events # <<>>
     THEN LET r == release_event(s3.events)
          IN [self |-> [s3 EXCEPT !.events = r.rest],
              out |-> PmPollResult("GenerateEvent", 0, <<r.event>>)]
     ELSE IF s3.peers_to_dial # <<>>
          THEN LET enr == s3.peers_to_dial[Len(s3.peers_to_dial)]
                   s4 == [s3 EXCEPT !.peers_to_dial = SubSeq(@, 1, Len(@) - 1)]
               IN [self |-> inject_peer_connection(s4, enr, "Dialing"),
                   out |-> PmPollResult("Dial", enr, <<>>)]
          ELSE [self |-> s3, out |-> PmPollResult("Pending", 0, <<>>)]

(***************************************************************************)
(* The peer manager under the swarm, discovery and the executor.           *)
(***************************************************************************)
RECURSIVE Perms(_)
Perms(S) ==
  IF S = {} THEN {<<>>}
  ELSE UNION {{<<x>> \o q : q \in Perms(S \ {x})} : x \in S}

\* the sequences without repetition over a set
Orders(S) == UNION {Perms(X) : X \in SUBSET S}

\* the orders in which a result map over some of the peers is iterated
ResultOrders == Orders(Enrs)

\* what the last call was and, for peers_discovered, what it counted
Last(op, results_count, to_dial_peers) ==
  [op |-> op, results_count |-> results_count, to_dial_peers |-> to_dial_peers]

NoLast == Last("other", 0, 0)

\* a call that took a peer and returned a decision
Called(op, peer, ret) == [op |-> op, peer |-> peer, ret |-> ret]

NoPoll == PmPollResult("None", 0, <<>>)

\* the ban ends that a disconnect may bring
Purges(self) == {<<>>} \cup {<<b>> : b \in self.peers.banned}

PmStart(configs) ==
  /\ pm \in {PeerManager_new(cfg, PeerDB_new(cfg.others, cfg.banned, cfg.future_duty)) :
               cfg \in configs}
  /\ pm_conns = [p \in Enrs |-> 0]
  /\ pm_out = NoPoll
  /\ pm_last = NoLast
  /\ pm_steps = 0

PmInit == PmStart(PmConfigs)

Pm50Init == PmStart(Pm50Configs)

PmCountInit == PmStart(PmCountConfigs)

\* a target of 50 with one store just below max_peers and one just below
\* max_outbound_dialing_peers, and no peer with a future duty
PmLimitConfigs ==
  { [target_peer_count |-> 50, discovery_enabled |-> TRUE, others |-> 54,
     banned |-> {}, future_duty |-> {}],
    [target_peer_count |-> 50, discovery_enabled |-> TRUE, others |-> 60,
     banned |-> {}, future_duty |-> {}] }

PmLimitInit == PmStart(PmLimitConfigs)

\* maintain_peer_count on its own: any small target and any store
PmMaintainInit ==
  /\ \E t \in 0..MaxTarget, n \in 0..MaxOthers, st \in [Enrs -> Statuses] :
       pm = [PeerManager_new(
               [target_peer_count |-> t, discovery_enabled |-> TRUE],
               [PeerDB_new(n, {}, {}) EXCEPT !.status = st])
             EXCEPT !.inbound_ping_peers = {p \in Enrs : st[p] = "ConnectedIn"},
                    !.outbound_ping_peers = {p \in Enrs : st[p] = "ConnectedOut"},
                    !.status_peers = {p \in Enrs : st[p] \in ConnectedStatuses}]
  /\ pm_conns = [p \in Enrs |-> 0]
  /\ pm_out = NoPoll
  /\ pm_last = NoLast
  /\ pm_steps = 0

\* maintain_peer_count(dialing_peers), as heartbeat and peers_discovered call it
PmMaintain(dialing_peers) ==
  /\ pm_steps = 0
  /\ pm_steps' = 1
  /\ pm' = maintain_peer_count(pm, dialing_peers)
  /\ pm_last' = Last("maintain_peer_count", 0, dialing_peers)
  /\ UNCHANGED <<pm_conns, pm_out, scVars, hsVars, wrVars, vfVars, muVars>>

PmMaintainNext == \E dialing_peers \in 0..MaxDialing : PmMaintain(dialing_peers)

\* the start of the runs in which the heartbeat keeps ticking
PmFairInit ==
  PmStart({[target_peer_count |-> 1, discovery_enabled |-> TRUE, others |-> 0,
            banned |-> {}, future_duty |-> {}]})

\* one more call to the peer manager
PmStep ==
  /\ pm_steps < MaxSteps
  /\ pm_steps' = pm_steps + 1

\* the application asks to dial a peer
PmDialPeer(enr) ==
  /\ \E d \in {dial_peer(pm, enr)} :
       /\ pm' = d.self
       /\ pm_last' = Called("dial_peer", enr, d.ret)
  /\ PmStep
  /\ pm_out' = NoPoll
  /\ UNCHANGED <<pm_conns, scVars, hsVars, wrVars, vfVars, muVars>>

\* discovery hands over its results; the map is iterated in some order
PmPeersDiscovered(order, deadlines) ==
  /\ \E r \in {peers_discovered(pm, [i \in 1..Len(order) |->
                                      <<order[i], order[i] \in deadlines>>])} :
       /\ pm' = r.self
       /\ pm_last' = Last("peers_discovered", Len(order), r.to_dial_peers)
  /\ PmStep
  /\ pm_out' = NoPoll
  /\ UNCHANGED <<pm_conns, scVars, hsVars, wrVars, vfVars, muVars>>

\* a peer connects to us: the admission callback, then ConnectionEstablished;
\* a denied connection ends in a ListenFailure, which on_swarm_event ignores
PmInboundConnection(peer_id) ==
  /\ pm_conns[peer_id] < MaxConns
  /\ IF handle_established_inbound_connection(pm, peer_id)
     THEN /\ pm' = on_connection_established(pm, peer_id, "Listener")
          /\ pm_conns' = [pm_conns EXCEPT ![peer_id] = @ + 1]
          /\ pm_last' = Called("inbound_connection", peer_id, TRUE)
     ELSE /\ UNCHANGED <<pm, pm_conns>>
          /\ pm_last' = Called("inbound_connection", peer_id, FALSE)
  /\ PmStep
  /\ pm_out' = NoPoll
  /\ UNCHANGED <<scVars, hsVars, wrVars, vfVars, muVars>>

\* a dial reaches a peer: the admission callback, then ConnectionEstablished;
\* a denied connection ends in a DialFailure for the peer
PmOutboundConnection(peer_id, purged) ==
  /\ pm_conns[peer_id] < MaxConns
  /\ IF handle_established_outbound_connection(pm, peer_id)
     THEN /\ purged = <<>>
          /\ pm' = on_connection_established(pm, peer_id, "Dialer")
          /\ pm_conns' = [pm_conns EXCEPT ![peer_id] = @ + 1]
          /\ pm_last' = Called("outbound_connection", peer_id, TRUE)
     ELSE /\ pm' = on_dial_failure(pm, peer_id, purged)
          /\ UNCHANGED pm_conns
          /\ pm_last' = Called("outbound_connection", peer_id, FALSE)
  /\ PmStep
  /\ pm_out' = NoPoll
  /\ UNCHANGED <<scVars, hsVars, wrVars, vfVars, muVars>>

\* on_swarm_event(ConnectionClosed)
PmConnectionClosed(peer_id, purged) ==
  /\ pm_conns[peer_id] > 0
  /\ pm_conns' = [pm_conns EXCEPT ![peer_id] = @ - 1]
  /\ pm' = on_connection_closed(pm, peer_id, pm_conns'[peer_id],
                                IF pm_conns'[peer_id] > 0 THEN <<>> ELSE purged)
  /\ pm_conns'[peer_id] > 0 => purged = <<>>
  /\ PmStep
  /\ pm_last' = NoLast
  /\ pm_out' = NoPoll
  /\ UNCHANGED <<scVars, hsVars, wrVars, vfVars, muVars>>

\* on_swarm_event(DialFailure); peer 0 is a failure without a peer id
PmDialFailure(peer_id, purged) ==
  /\ pm' = on_dial_failure(pm, peer_id, purged)
  /\ (peer_id = 0 \/ is_connected(pm.peers, peer_id)) => purged = <<>>
  /\ PmStep
  /\ pm_last' = NoLast
  /\ pm_out' = NoPoll
  /\ UNCHANGED <<pm_conns, scVars, hsVars, wrVars, vfVars, muVars>>

\* the executor polls the peer manager: some heartbeat ticks and ping timers are due
PmPoll(ticks, due_inbound, due_outbound) ==
  /\ PmStep
  /\ \E r \in {poll(pm, ticks, due_inbound, due_outbound)} :
       /\ pm' = r.self
       /\ pm_out' = r.out
  /\ pm_last' = NoLast
  /\ UNCHANGED <<pm_conns, scVars, hsVars, wrVars, vfVars, muVars>>

\* the heartbeat interval wakes the executor, which polls the peer manager with
\* one tick due, no ping due, and the dial timeout of every dialing peer passed
PmHeartbeatPoll ==
  /\ \E r \in {poll(pm, <<{p \in Enrs : pm.peers.status[p] = "Dialing"}>>, <<>>, <<>>)} :
       /\ pm' = r.self
       /\ pm_out' = r.out
  /\ pm_last' = Last("heartbeat",
                     Cardinality({p \in Enrs : pm.peers.status[p] = "Dialing"}), 0)
  /\ UNCHANGED <<pm_conns, pm_steps, scVars, hsVars, wrVars, vfVars, muVars>>

\* the application keeps asking for dials while the queue has room
PmAdmit(enr) ==
  /\ Len(pm.peers_to_dial) < MaxQueue
  /\ \E d \in {dial_peer(pm, enr)} :
       /\ pm' = d.self
       /\ pm_last' = Called("dial_peer", enr, d.ret)
  /\ pm_out' = NoPoll
  /\ UNCHANGED <<pm_conns, pm_steps, scVars, hsVars, wrVars, vfVars, muVars>>

\* the swarm reports that the dial of a dialing peer failed
PmDialFails(peer_id) ==
  /\ pm.peers.status[peer_id] = "Dialing"
  /\ pm' = on_dial_failure(pm, peer_id, <<>>)
  /\ pm_last' = NoLast
  /\ pm_out' = NoPoll
  /\ UNCHANGED <<pm_conns, pm_steps, scVars, hsVars, wrVars, vfVars, muVars>>

\* the executor polls the peer manager again with no timer due
PmDrainPoll ==
  /\ \E r \in {poll(pm, <<>>, <<>>, <<>>)} :
       /\ pm' = r.self
       /\ pm_out' = r.out
  /\ pm_last' = NoLast
  /\ UNCHANGED <<pm_conns, pm_steps, scVars, hsVars, wrVars, vfVars, muVars>>

PmDialNext ==
  \/ \E enr \in Enrs : PmAdmit(enr)
  \/ \E p \in Enrs : PmDialFails(p)
  \/ PmHeartbeatPoll
  \/ PmDrainPoll

PmNext ==
  \/ \E enr \in Enrs : PmDialPeer(enr)
  \/ \E order \in ResultOrders : \E deadlines \in SUBSET {order[i] : i \in 1..Len(order)} :
       PmPeersDiscovered(order, deadlines)
  \/ \E p \in Enrs : PmInboundConnection(p)
  \/ \E p \in Enrs, purged \in Purges(pm) : PmOutboundConnection(p, purged)
  \/ \E p \in Enrs, purged \in Purges(pm) : PmConnectionClosed(p, purged)
  \/ \E p \in Enrs \cup {0}, purged \in Purges(pm) : PmDialFailure(p, purged)
  \/ \E n \in 0..MaxTicks :
       \E ticks \in [1..n -> SUBSET {p \in Enrs : pm.peers.status[p] = "Dialing"}] :
       \E due_inbound \in Orders(pm.inbound_ping_peers) :
         \E due_outbound \in Orders(pm.outbound_ping_peers) :
           PmPoll(ticks, due_inbound, due_outbound)

(***************************************************************************)
(* make_unsigned on arbitrary byte strings.                                *)
(***************************************************************************)
\* the byte values the fields are made of
FieldBytes == {0, 1}

\* the byte strings of up to MaxFieldLen bytes
RECURSIVE StringsUpTo(_)
StringsUpTo(n) ==
  IF n = 0 THEN {<<>>}
  ELSE LET shorter == StringsUpTo(n - 1)
       IN shorter \cup {Append(x, b) : x \in shorter, b \in FieldBytes}

FieldStrings == StringsUpTo(MaxFieldLen)

MuInit ==
  /\ mu_pc = "start"
  /\ mu_domain \in FieldStrings
  /\ mu_payload_type \in FieldStrings
  /\ mu_payload \in FieldStrings
  /\ mu_out = <<>>

\* make_unsigned(domain, payload_type, payload)
MuMake ==
  /\ mu_pc = "start"
  /\ mu_out' = make_unsigned(mu_domain, mu_payload_type, mu_payload)
  /\ mu_pc' = "made"
  /\ UNCHANGED <<mu_domain, mu_payload_type, mu_payload, scVars, hsVars, pmVars, wrVars,
                 vfVars>>

MuNext == MuMake

(***************************************************************************)
(* The specifications: one per component, the others idle.                 *)
(***************************************************************************)
ScIdle ==
  /\ sc_pc = "idle" /\ sc_sealer = "seal" /\ sc_parser = "parse_envelope"
  /\ sc_rec = NodeInfoDefault /\ sc_key = 1 /\ sc_env = EmptyEnvelope
  /\ sc_data = <<>> /\ sc_parsed = NoParse /\ sc_info = NoUnmarshal

HsIdle ==
  /\ hs_impl = "Behaviour" /\ hs_inner = <<>> /\ hs_events = <<>> /\ hs_pending = <<>>
  /\ hs_log = {} /\ hs_crashed = FALSE /\ hs_out = PollResult("None", 0, <<>>)
  /\ hs_next_id = 1 /\ hs_outstanding = {} /\ hs_items = 0

PmIdle ==
  /\ pm = <<>> /\ pm_conns = <<>> /\ pm_out = NoPoll /\ pm_last = NoLast
  /\ pm_steps = 0

MrIdle ==
  /\ mr_pc = "idle" /\ mr_impl = "NodeInfo" /\ mr_x = NodeInfoDefault /\ mr_data = <<>>
  /\ mr_src = "none" /\ mr_before = NodeInfoDefault /\ mr_rec = NodeInfoDefault
  /\ mr_res = NoResult /\ mr_calls = 0

CdIdle ==
  /\ cd_pc = "idle" /\ cd_codec = "Codec" /\ cd_kind = "none" /\ cd_env = EmptyEnvelope
  /\ cd_io = <<>> /\ cd_res = CodecErr

VfIdle ==
  /\ vf_pc = "idle" /\ vf_routine = "consume_envelope" /\ vf_env = EmptyEnvelope
  /\ vf_how = "none" /\ vf_data = <<>> /\ vf_res = NoVerifyResult

MuIdle ==
  /\ mu_pc = "idle" /\ mu_domain = <<>> /\ mu_payload_type = <<>> /\ mu_payload = <<>>
  /\ mu_out = <<>>

SealInit == ScInit /\ HsIdle /\ PmIdle /\ MrIdle /\ CdIdle /\ VfIdle /\ MuIdle
HandshakeInit == HsInit /\ ScIdle /\ PmIdle /\ MrIdle /\ CdIdle /\ VfIdle /\ MuIdle
PeerManagerInit == PmInit /\ ScIdle /\ HsIdle /\ MrIdle /\ CdIdle /\ VfIdle /\ MuIdle
PeerManager50Init == Pm50Init /\ ScIdle /\ HsIdle /\ MrIdle /\ CdIdle /\ VfIdle /\ MuIdle
PeerManagerCountInit == PmCountInit /\ ScIdle /\ HsIdle /\ MrIdle /\ CdIdle /\ VfIdle /\ MuIdle
PeerManagerLimitInit == PmLimitInit /\ ScIdle /\ HsIdle /\ MrIdle /\ CdIdle /\ VfIdle /\ MuIdle
PeerManagerMaintainInit ==
  PmMaintainInit /\ ScIdle /\ HsIdle /\ MrIdle /\ CdIdle /\ VfIdle /\ MuIdle
PeerManagerFairInit == PmFairInit /\ ScIdle /\ HsIdle /\ MrIdle /\ CdIdle /\ VfIdle /\ MuIdle
RecordInit == MrInit /\ ScIdle /\ HsIdle /\ PmIdle /\ CdIdle /\ VfIdle /\ MuIdle
CodecInit == CdInit /\ ScIdle /\ HsIdle /\ PmIdle /\ MrIdle /\ VfIdle /\ MuIdle
VerifyInit == VfInit /\ ScIdle /\ HsIdle /\ PmIdle /\ MrIdle /\ CdIdle /\ MuIdle
MakeUnsignedInit ==
  MuInit /\ ScIdle /\ HsIdle /\ PmIdle /\ MrIdle /\ CdIdle /\ VfIdle

\* the seal/consume pipeline
SpecSeal == SealInit /\ [][ScNext]_vars

\* the handshake behaviours
SpecHs == HandshakeInit /\ [][HsNext]_vars

\* the swarm polls a behaviour again after every Ready it returns, and the
\* engine returns Pending only with an empty buffer: poll is called again for
\* as long as events are buffered
SpecHsFair == HandshakeInit /\ [][HsNext]_vars /\ WF_vars(HsPoll)

\* the peer manager with a small target
SpecPM == PeerManagerInit /\ [][PmNext]_vars

\* the peer manager with a target of 50, below and above it
SpecPMCount == PeerManagerCountInit /\ [][PmNext]_vars

\* the peer manager with a target of 50, at its limits, no future duties
SpecPMLimit == PeerManagerLimitInit /\ [][PmNext]_vars

\* maintain_peer_count on any small target and store
SpecMaintain == PeerManagerMaintainInit /\ [][PmMaintainNext]_vars

PmFairNext == PmNext \/ PmHeartbeatPoll

\* the heartbeat is a tokio interval: every tick wakes the task that polls the
\* peer manager, and time passes, so a poll with a tick due and the dial
\* timeouts passed happens again and again
SpecPMFair == PeerManagerFairInit /\ [][PmFairNext]_vars /\ WF_vars(PmHeartbeatPoll)

\* the dial queue under a steady stream of dial requests: the executor polls the
\* peer manager again after every result and on every heartbeat tick
SpecPMDial ==
  /\ PeerManagerFairInit
  /\ [][PmDialNext]_vars
  /\ WF_vars(PmDrainPoll)
  /\ WF_vars(PmHeartbeatPoll)

\* the peer manager with a target of 50
SpecPM50 == PeerManager50Init /\ [][PmNext]_vars

\* marshalling and unmarshalling identity records
SpecRecord == RecordInit /\ [][MrNext]_vars

\* one message through a stream codec
SpecCodec == CodecInit /\ [][CdNext]_vars

\* verification of a received envelope
SpecVerify == VerifyInit /\ [][VfNext]_vars

\* make_unsigned on byte strings
SpecMakeUnsigned == MakeUnsignedInit /\ [][MuNext]_vars

(***************************************************************************)
(* Claims.                                                                 *)
(***************************************************************************)
\* C1: for every record r and key k, the envelope seal(r, k), encoded and
\* handed to parse_envelope, passes signature verification, and unmarshalling
\* the returned payload yields a record equal to r.
C1_SealParseRoundTrip ==
  (sc_sealer = "seal" /\ sc_parser = "parse_envelope") =>
    /\ sc_pc = "encoded" => parse_envelope(sc_data).ok
    /\ sc_pc # "panicked"
    /\ sc_pc = "done" => sc_info.self = sc_rec

\* the events of a log entry that are of a kind
EventsOfKind(e, kind) == {i \in 1..Len(e.evs) : e.evs[i].kind = kind}

\* an envelope whose signature verifies: the key decodes and the signature is
\* that key's over the domain, a node-info payload type and the payload
EnvelopeVerifies(env) ==
  LET pk == try_decode_protobuf(env.public_key)
  IN /\ pk.ok
     /\ \E codec \in {NodeInfo_CODEC, Record_CODEC} :
          verify(pk.key, make_unsigned(NodeInfo_DOMAIN, codec, env.payload), env.signature)

\* the record in the envelope of a request or response item
RecordOf(it) == unmarshal(NodeInfoDefault, EnvOf(it).payload)

\* C2: a Completed event is buffered for a request or a response only if the
\* envelope received from the peer passes signature verification.
C2_CompletedOnlyVerified ==
  \A e \in hs_log :
    (e.item.kind \in {"Request", "Response"} /\ EventsOfKind(e, "Completed") # {})
      => EnvelopeVerifies(EnvOf(e.item))

\* C3: for an inbound request the record that is checked, and the identity of a
\* Completed event, is the record of the peer's request envelope, and an outcome
\* is buffered whether or not the response could be sent.
C3_RequestChecksPeerRecord ==
  \A e \in hs_log :
    e.item.kind = "Request" =>
      /\ e.evs # <<>>
      /\ e.checked # <<>> => e.checked[1] = RecordOf(e.item).self
      /\ \A i \in EventsOfKind(e, "Completed") : e.evs[i].info = RecordOf(e.item).self

C5_ExactlyOneOutcome ==
  \A e \in hs_log :
    e.item.kind \in {"Request", "Response"} =>
      \* a response that could not be sent may leave the outcome to the
      \* InboundFailure the substrate reports next
      /\ (e.evs # <<>> \/ e.item.kind = "Response" \/ e.item.chan_open) => Len(e.evs) = 1
      /\ ~RecordOf(e.item).ok => EventsOfKind(e, "Completed") = {}

\* C6: an OutboundFailure or InboundFailure of the substrate buffers exactly one
\* Failed event, for the peer of the failed exchange.
C6_FailureYieldsOneFailed ==
  \A e \in hs_log :
    e.item.kind \in {"OutboundFailure", "InboundFailure"} =>
      /\ Len(e.evs) = 1
      /\ e.evs[1].kind = "Failed"
      /\ e.evs[1].peer = e.item.peer

\* HandshakeBehaviour has processed the failure of a request it had sent
C6_Witness ==
  /\ hs_impl = "HandshakeBehaviour"
  /\ \E e \in hs_log :
       /\ e.item.kind = "OutboundFailure"
       /\ e.evs = <<Failed(e.item.peer, "Outbound failure")>>

(***************************************************************************)
(* The peer manager's claims.                                              *)
(***************************************************************************)
\* the peers with an armed ping or status timer
TimerPeers(self) ==
  self.inbound_ping_peers \cup self.outbound_ping_peers \cup self.status_peers

\* C7: every peer in the inbound-ping, outbound-ping or status timer set is
\* Connected in the peer store, and a peer whose last connection has closed
\* is in none of the three timer sets.
C7_TimersOnlyForConnected ==
  /\ \A p \in TimerPeers(pm) : pm.peers.status[p] \in ConnectedStatuses
  /\ \A p \in Enrs : pm_conns[p] = 0 => p \notin TimerPeers(pm)

\* whether sequence a is the start of sequence b
IsPrefix(a, b) == Len(a) <= Len(b) /\ SubSeq(b, 1, Len(a)) = a

\* C8: a call to poll returns at most one output; the event it releases is
\* the oldest one queued and the others keep their order; it returns a dial
\* request only when the event queue is empty after the heartbeat and ping
\* timers were drained, so no event queued earlier is still waiting.
C8_PollFifoDialLast ==
  [][pm_out' # NoPoll =>
       /\ pm_out'.kind \in {"GenerateEvent", "Dial", "Pending"}
       /\ pm_out'.kind = "GenerateEvent" =>
            /\ Len(pm_out'.event) = 1 /\ pm_out'.peer = 0
            /\ IsPrefix(pm.events, pm_out'.event \o pm'.events)
            /\ pm'.peers_to_dial = pm.peers_to_dial
       /\ pm_out'.kind = "Dial" =>
            /\ pm_out'.event = <<>>
            /\ pm.events = <<>> /\ pm'.events = <<>>
            /\ pm.peers_to_dial = Append(pm'.peers_to_dial, pm_out'.peer)
       /\ pm_out'.kind = "Pending" =>
            /\ pm_out'.event = <<>> /\ pm_out'.peer = 0
            /\ pm'.events = <<>> /\ pm'.peers_to_dial = <<>>]_vars

\* poll has released the oldest of several queued events
C8_Witness ==
  /\ pm_out.kind = "GenerateEvent"
  /\ pm.events # <<>>
  /\ pm_out.event[1] # pm.events[Len(pm.events)]

\* the batches discovery can hand over: an iteration order and the peers with a deadline
Batches ==
  {[i \in 1..Len(order) |-> <<order[i], order[i] \in deadlines>>] :
     order \in ResultOrders, deadlines \in SUBSET Enrs}

\* C9: with a target of 50, peers_discovered does not admit a candidate
\* without a deadline when connected_or_dialing plus the number admitted
\* earlier in the batch is 55 or more, and admits a dialable candidate that is
\* not yet queued and carries a deadline when that count is 55 up to 64.
C9_DeadlineAdmission ==
  pm.target_peers_count = 50 =>
    \A results \in Batches :
      \A d \in peers_discovered(pm, results).decisions :
        /\ (~d.min_ttl /\ d.count >= 55) => ~d.admitted
        /\ (d.min_ttl /\ d.dialable /\ ~d.queued /\ d.count \in 55..64) => d.admitted

\* at 55 or more, a batch of two was handed over: the peer with a deadline was
\* queued, the dialable peer without one was not
C9_Witness ==
  /\ pm.target_peers_count = 50
  /\ pm_last = Last("peers_discovered", 2, 1)
  /\ connected_or_dialing_peers(pm) \in 55..64
  /\ \E p \in Enrs :
       /\ pm.peers_to_dial = <<p>> /\ p \in pm.peers.min_ttl
       /\ \E q \in Enrs \ {p} : should_dial(pm.peers, q) /\ q \notin pm.peers.min_ttl

\* C10: a call to peers_discovered with a non-empty result set that admits no
\* candidate leaves the event queue unchanged; every other call runs
\* maintain_peer_count with the number admitted in the batch.
C10_NoRequeryWithoutUsefulResults ==
  [][pm_last'.op = "peers_discovered" =>
       IF pm_last'.results_count > 0 /\ pm_last'.to_dial_peers = 0
       THEN pm'.events = pm.events
       ELSE pm'.events =
              maintain_peer_count([pm' EXCEPT !.events = pm.events],
                                  pm_last'.to_dial_peers).events]_vars

\* a non-empty batch admitted nobody while population maintenance would have
\* asked for more peers
C10_Witness ==
  /\ pm_last.op = "peers_discovered"
  /\ pm_last.results_count > 0 /\ pm_last.to_dial_peers = 0
  /\ maintain_peer_count(pm, 0).events # pm.events

\* the peers of a given set of statuses, with the further peers the store holds
CountWithStatus(self, statuses) ==
  self.peers.others + Cardinality({q \in Enrs : self.peers.status[q] \in statuses})

\* C11: an inbound connection is denied exactly when connected_or_dialing is
\* at least max_peers and the peer has no future duty; a denied connection
\* changes nothing, an admitted one registers the peer as connected inbound.
C11_InboundAdmission ==
  [][pm_last'.op = "inbound_connection" =>
       LET p == pm_last'.peer
           count == CountWithStatus(pm, {"ConnectedIn", "ConnectedOut", "Dialing"})
           denied == count >= max_peers(pm) /\ p \notin pm.peers.future_duty
       IN /\ pm_last'.ret = ~denied
          /\ count < max_peers(pm) => pm_last'.ret
          /\ p \in pm.peers.future_duty => pm_last'.ret
          /\ denied => pm' = pm /\ pm_conns' = pm_conns
          /\ ~denied => /\ pm'.peers.status[p] = "ConnectedIn"
                         /\ pm_conns'[p] = pm_conns[p] + 1]_vars

\* with the store far above max_peers, the peer with a future duty was
\* admitted and then the peer without one was denied
C11_Witness ==
  /\ pm_last = Called("inbound_connection", 2, FALSE)
  /\ pm.peers.status[1] = "ConnectedIn" /\ 1 \in pm.peers.future_duty
  /\ pm.peers.others >= max_peers(pm)

\* C12: an outbound connection is denied exactly when the connected peers are
\* at least max_outbound_dialing_peers and the peer has no future duty; the
\* peers in Dialing state are not counted.
C12_OutboundAdmission ==
  [][pm_last'.op = "outbound_connection" =>
       LET p == pm_last'.peer
           connected == CountWithStatus(pm, {"ConnectedIn", "ConnectedOut"})
           denied == connected >= max_outbound_dialing_peers(pm)
                     /\ p \notin pm.peers.future_duty
       IN /\ pm_last'.ret = ~denied
          /\ denied => pm_conns' = pm_conns
          /\ ~denied => /\ pm'.peers.status[p] = "ConnectedOut"
                         /\ pm_conns'[p] = pm_conns[p] + 1]_vars

\* a dial reached its peer and was admitted with the other peer connected:
\* one below max_outbound_dialing_peers without the dialing peer, at it with
C12_Witness ==
  /\ pm_last.op = "outbound_connection" /\ pm_last.ret
  /\ pm_out = NoPoll
  /\ pm_conns[pm_last.peer] = 1
  /\ pm_last.peer \notin pm.peers.future_duty
  /\ CountWithStatus(pm, {"ConnectedIn", "ConnectedOut"}) = max_outbound_dialing_peers(pm)

\* C13: dial_peer appends the candidate to the dial queue and returns true
\* exactly when the store holds it as not connected, not dialing and not
\* banned; otherwise it returns false and changes neither queue nor store.
C13_DialPeerIffDialable ==
  [][pm_last'.op = "dial_peer" =>
       LET p == pm_last'.peer
           dialable == /\ pm.peers.status[p] \notin {"ConnectedIn", "ConnectedOut", "Dialing"}
                       /\ p \notin pm.peers.banned
       IN IF dialable
          THEN pm_last'.ret /\ pm' = [pm EXCEPT !.peers_to_dial = Append(@, p)]
          ELSE ~pm_last'.ret /\ pm' = pm]_vars

\* dial_peer has refused a banned peer while another peer is queued
C13_Witness ==
  /\ pm_last.op = "dial_peer" /\ ~pm_last.ret
  /\ pm_last.peer \in pm.peers.banned
  /\ pm.peers_to_dial # <<>>

(***************************************************************************)
(* The identity record's and the stream codecs' claims.                    *)
(***************************************************************************)
\* C14: when unmarshal returns an error, the target record is what it was
\* before the call: neither network_id nor metadata has changed.
C14_FailedUnmarshalLeavesRecord ==
  (mr_pc = "unmarshalled" /\ ~mr_res.ok) => mr_rec = mr_before

\* the entries of the document that was unmarshalled
EntriesOf(data) == SerializableFromJson(data)

\* C15: a successful unmarshal replaces the target record by what the
\* document holds, whatever the record held before: network_id is entry 1,
\* metadata is None for a 2-entry list and the decoded third entry
\* otherwise; a list of fewer than 2 entries is a validation failure.
C15_UnmarshalReplacesRecord ==
  mr_pc = "unmarshalled" =>
    LET ser == EntriesOf(mr_data)
    IN /\ (ser.ok /\ Len(ser.entries) < 2) => (~mr_res.ok /\ mr_res.err = "Validation")
       /\ mr_res.ok =>
            /\ ser.ok /\ Len(ser.entries) >= 2
            /\ mr_rec.network_id = ser.entries[2]
            /\ Len(ser.entries) = 2 => mr_rec.metadata = <<>>
            /\ Len(ser.entries) >= 3 =>
                 /\ MetaFromJson(ser.entries[3]).ok
                 /\ mr_rec.metadata = MetaFromJson(ser.entries[3]).meta

\* C16: unmarshalling marshal(x) into a fresh record gives a record equal to
\* x; marshal emits 2 entries without metadata and 3 with it, and entry 0
\* is always the empty placeholder.
C16_MarshalRoundTrip ==
  /\ (mr_src = "marshal" /\ mr_pc \in {"data", "unmarshalled"}) =>
       LET ser == EntriesOf(mr_data)
       IN /\ ser.ok
          /\ Len(ser.entries) = (IF mr_x.metadata = <<>> THEN 2 ELSE 3)
          /\ ser.entries[1] = <<>>
  /\ (mr_src = "marshal" /\ mr_pc = "unmarshalled" /\ mr_before = NodeInfoDefault) =>
       (mr_res.ok /\ mr_rec = mr_x)

\* a record with metadata was marshalled and unmarshalled into a fresh record
C16_Witness ==
  /\ mr_src = "marshal" /\ mr_pc = "unmarshalled" /\ mr_calls = 1
  /\ mr_before = NodeInfoDefault
  /\ mr_x.metadata # <<>> /\ mr_x.network_id # <<>>
  /\ mr_rec = mr_x

\* C20: a codec reads back what it wrote: the bytes of write_request(e) are
\* decoded by read_request to e, and the bytes of write_response(e) by
\* read_response to e.
C20_CodecReadsWhatItWrote ==
  cd_pc = "read" => cd_res = CodecOk(cd_env)

\* C17: a controller with target_peers_count 50 has max_peers = 55,
\* max_priority_peers = 65 and max_outbound_dialing_peers = 60.
C17_ThresholdsAtFifty ==
  pm.target_peers_count = 50 =>
    /\ max_peers(pm) = 55
    /\ max_priority_peers(pm) = 65
    /\ max_outbound_dialing_peers(pm) = 60

\* C18: a call to poll that returns releases at most one buffered event, and
\* it is the oldest one: what was buffered before the call is a prefix of
\* the released event followed by what stays buffered, and what the call
\* buffered is appended, nothing lost and nothing twice; no other operation
\* touches the buffer; poll returns an identity event or Pending only with no
\* ready item left in the substrate, and Pending only with an empty buffer;
\* and, as long as poll is called, a buffer of n events later holds fewer
\* than n, so the oldest event of any buffer is eventually released.
C18_BufferedEventsReleased ==
  /\ [][/\ hs_events' # hs_events => HsPoll
        /\ (HsPoll /\ ~hs_crashed') =>
             /\ hs_out'.kind = "GenerateEvent" <=> Len(hs_out'.event) = 1
             /\ hs_out'.kind # "GenerateEvent" => hs_out'.event = <<>>
             /\ IsPrefix(hs_events, hs_out'.event \o hs_events')
             /\ (Len(hs_inner) <= 1 /\ hs_log' = {}) =>
                  hs_out'.event \o hs_events' = hs_events
             /\ \A e \in hs_log' :
                  /\ Len(hs_inner) = 1 => hs_out'.event \o hs_events' = hs_events \o e.evs
                  /\ \A i \in 1..Len(e.evs) :
                       \E j \in 1..Len(hs_out'.event \o hs_events') :
                         (hs_out'.event \o hs_events')[j] = e.evs[i]
             /\ hs_out'.kind \in {"GenerateEvent", "Pending"} => hs_inner' = <<>>
             /\ hs_out'.kind = "Pending" => hs_events' = <<>>]_vars
  /\ \A n \in 1..(2 * MaxItems) :
       (Len(hs_events) = n) ~> (Len(hs_events) < n \/ hs_crashed)

\* poll has released the older of two buffered events and kept the newer
C18_Witness ==
  /\ hs_out.kind = "GenerateEvent"
  /\ hs_events # <<>>
  /\ hs_out.event[1] # hs_events[1]
  /\ hs_inner = <<>>

\* C19: every handshake request the engine has sent and that is still
\* outstanding was sent for a connection the local node dialed; for a
\* connection the peer dialed no request is sent.
C19_RequestOnlyWhenDialer ==
  \A o \in hs_outstanding : o.dialer

(***************************************************************************)
(* The envelope verification claims.                                       *)
(***************************************************************************)
\* C21: the result of verifying an envelope does not depend on its
\* payload_type field: the same envelope with any other payload type gets the
\* same outcome (and the same record); and an envelope is accepted only if its
\* signature is made over the verifier's own domain and payload-type tag, so
\* one signed over another domain or tag is rejected.
C21_VerifierUsesExpectedType ==
  vf_pc \in {"verified", "panicked"} =>
    /\ \A t \in PayloadTypes :
         LET twin == VerifyResult(vf_routine, encode_to_vec([vf_env EXCEPT !.payload_type = t]))
         IN twin.ok = vf_res.ok /\ twin.err = vf_res.err /\ twin.rec = vf_res.rec
    /\ vf_res.ok =>
         \E k \in Keys :
           vf_env.signature = sign(k, make_unsigned(NodeInfo_DOMAIN, Record_CODEC, vf_env.payload))
    /\ vf_how \in {"tag", "domain"} => ~vf_res.ok

\* an envelope whose payload_type field was replaced has been accepted
C21_Witness ==
  /\ vf_pc = "verified" /\ vf_how = "payload_type"
  /\ vf_env.payload_type # Record_CODEC
  /\ vf_res.ok

\* C22: an envelope whose payload or signature was altered after sealing is
\* answered with a signature-verification error, and neither the envelope nor
\* a record is returned.
C22_AlteredEnvelopeFailsSignature ==
  (vf_pc \in {"verified", "panicked"} /\ vf_how \in {"payload", "signature"}) =>
    /\ ~vf_res.ok
    /\ vf_res.err = "SignatureVerification"
    /\ vf_res.env = EmptyEnvelope /\ vf_res.rec = NodeInfoDefault

\* C23: an envelope whose public_key does not decode is answered with the
\* error PublicKeyDecoding, and the process goes on.
C23_BadKeyIsAnError ==
  (vf_pc \in {"verified", "panicked"} /\ vf_how = "public_key") =>
    /\ vf_pc = "verified"
    /\ ~vf_res.ok /\ vf_res.err = "PublicKeyDecoding"


(***************************************************************************)
(* The peer manager's population and timer claims.                         *)
(***************************************************************************)
\* C24: with a target of 50, peers_discovered never admits a candidate that
\* carries a deadline when connected_or_dialing plus the number admitted
\* earlier in the same batch is at or above max_priority_peers (65).
C24_PriorityCap ==
  pm.target_peers_count = 50 =>
    \A results \in Batches :
      \A d \in peers_discovered(pm, results).decisions :
        (d.min_ttl /\ d.count >= max_priority_peers(pm)) => ~d.admitted


\* what C25 expects maintain_peer_count to queue, with `subtracted` the count
\* taken off in the first branch
DiscoverRequest(self, already_dialing, subtracted) ==
  LET connected_or_dialing ==
        CountWithStatus(self, {"ConnectedIn", "ConnectedOut", "Dialing"})
      outbound_only == Cardinality({p \in Enrs : self.peers.status[p] = "ConnectedOut"})
      ceiling == max_outbound_dialing_peers(self) - already_dialing - connected_or_dialing
  IN IF ~self.discovery_enabled THEN <<>>
     ELSE IF connected_or_dialing < self.target_peers_count - already_dialing
     THEN <<PmEvent("DiscoverPeers", 0, max_peers(self) - already_dialing - subtracted)>>
     ELSE IF outbound_only < min_outbound_only_peers(self)
             /\ connected_or_dialing < max_outbound_dialing_peers(self)
             /\ ceiling > 0
     THEN <<PmEvent("DiscoverPeers", 0, ceiling)>>
     ELSE <<>>

\* the numbers of peers a batch can have admitted
AlreadyDialing == 0..Cardinality(Enrs)

\* C25 (as the code has it): maintain_peer_count(already_dialing) queues
\* nothing when discovery is disabled; when enabled, if connected_or_dialing <
\* T - already_dialing it queues exactly one DiscoverPeers(n) with n =
\* max_peers - already_dialing - connected_or_dialing; else if the outbound-only
\* peers are below min_outbound_only_peers and connected_or_dialing is below
\* max_outbound_dialing_peers it queues DiscoverPeers(n) with n =
\* max_outbound_dialing_peers - already_dialing - connected_or_dialing when that
\* is positive; otherwise it queues nothing.  Nothing else of the peer manager
\* changes.
C25_MaintainPeerCount ==
  \A n \in AlreadyDialing :
    maintain_peer_count(pm, n) =
      [pm EXCEPT !.events = @ \o DiscoverRequest(pm, n,
                   CountWithStatus(pm, {"ConnectedIn", "ConnectedOut", "Dialing"}))]

\* C25 as stated: in the first branch n = max_peers - already_dialing -
\* connected, connected being the number of connected peers.
C25_SubtractsConnected ==
  \A n \in AlreadyDialing :
    maintain_peer_count(pm, n) =
      [pm EXCEPT !.events = @ \o DiscoverRequest(pm, n,
                   CountWithStatus(pm, {"ConnectedIn", "ConnectedOut"}))]

\* below the target with one peer still dialing, a batch admitted the other
\* peer and maintain_peer_count(1) asked for more
C25_Witness ==
  /\ pm_last = Last("peers_discovered", 1, 1)
  /\ \E p \in Enrs : pm.peers.status[p] = "Dialing"
  /\ connected_or_dialing_peers(pm) < pm.target_peers_count - 1
  /\ pm.events # <<>>
  /\ pm.events[Len(pm.events)] =
       PmEvent("DiscoverPeers", 0, max_peers(pm) - 1 - connected_or_dialing_peers(pm))


\* the UnBanned events for the peers the store reports as unbanned
UnBannedEvents(purged) == [i \in 1..Len(purged) |-> PmEvent("UnBanned", purged[i], 0)]

\* the disconnect bookkeeping for a peer: out of the three timer sets, marked
\* Disconnected, the given events queued and nothing else changed
DisconnectBookkeeping(before, after, peer_id, queued) ==
  /\ after.inbound_ping_peers = before.inbound_ping_peers \ {peer_id}
  /\ after.outbound_ping_peers = before.outbound_ping_peers \ {peer_id}
  /\ after.status_peers = before.status_peers \ {peer_id}
  /\ after.peers.status[peer_id] = "Disconnected"
  /\ \A q \in Enrs \ {peer_id} : after.peers.status[q] = before.peers.status[q]
  /\ after.events = before.events \o queued
  /\ after.peers_to_dial = before.peers_to_dial

\* C26: a connection-closed event with remaining_established > 0 changes
\* nothing.  With remaining_established = 0 a PeerDisconnected event is queued
\* if and only if the peer was tracked as Connected or Disconnecting; in every
\* case the peer is removed from the three timer sets and marked Disconnected,
\* and one UnBanned event is queued per peer the store reports as unbanned.
C26_ConnectionClosed ==
  \A p \in Enrs : pm_conns[p] > 0 =>
    LET remaining_established == pm_conns[p] - 1
    IN \A purged \in IF remaining_established > 0 THEN {<<>>} ELSE Purges(pm) :
         LET after == on_connection_closed(pm, p, remaining_established, purged)
             tracked == pm.peers.status[p] \in {"ConnectedIn", "ConnectedOut", "Disconnecting"}
         IN IF remaining_established > 0
            THEN after = pm
            ELSE /\ DisconnectBookkeeping(pm, after, p,
                      (IF tracked THEN <<PmEvent("PeerDisconnected", p, 0)>> ELSE <<>>)
                        \o UnBannedEvents(purged))
                 /\ after.peers.banned = pm.peers.banned \ {purged[i] : i \in 1..Len(purged)}

\* the last connection of a connected peer has closed and a ban ended with it:
\* PeerDisconnected and UnBanned are the newest events
C26_Witness ==
  \E p \in Enrs, b \in Enrs :
    /\ pm_conns[p] = 0 /\ pm.peers.status[p] = "Disconnected"
    /\ p \notin TimerPeers(pm)
    /\ Len(pm.events) >= 2
    /\ SubSeq(pm.events, Len(pm.events) - 1, Len(pm.events)) =
         <<PmEvent("PeerDisconnected", p, 0), PmEvent("UnBanned", b, 0)>>


\* C27: a dial failure for a peer tracked as Connected leaves the peer's
\* status and its timers unchanged; a dial failure for a peer that is not
\* connected applies the disconnect bookkeeping (marked Disconnected, timers
\* cleared) without queueing PeerDisconnected; a dial failure with no peer id
\* (peer 0) changes nothing.
C27_DialFailure ==
  \A p \in Enrs \cup {0} :
    LET connected == p # 0 /\ pm.peers.status[p] \in {"ConnectedIn", "ConnectedOut"}
    IN \A purged \in IF p = 0 \/ connected THEN {<<>>} ELSE Purges(pm) :
         LET after == on_dial_failure(pm, p, purged)
         IN IF p = 0 THEN after = pm
            ELSE IF connected
            THEN /\ after.peers.status[p] = pm.peers.status[p]
                 /\ after.inbound_ping_peers = pm.inbound_ping_peers
                 /\ after.outbound_ping_peers = pm.outbound_ping_peers
                 /\ after.status_peers = pm.status_peers
                 /\ after.events = pm.events
            ELSE DisconnectBookkeeping(pm, after, p, UnBannedEvents(purged))

\* a dial to a peer that had meanwhile connected inbound was denied at the
\* outbound limit: the dial failure left the peer connected with its timers
C27_Witness ==
  \E p \in Enrs :
    /\ pm_last = Called("outbound_connection", p, FALSE)
    /\ pm.peers.status[p] = "ConnectedIn" /\ pm_conns[p] = 1
    /\ p \in pm.inbound_ping_peers /\ p \in pm.status_peers


\* C28: a peer recorded as Dialing whose dial neither succeeds nor reports a
\* failure is eventually reverted to Disconnected by a heartbeat once its dial
\* timeout has passed: a peer does not stay Dialing forever.
C28_StuckDialReverted ==
  \A p \in Enrs :
    (pm.peers.status[p] = "Dialing") ~>
      (pm.peers.status[p] = "Disconnected" \/ pm.peers.status[p] \in ConnectedStatuses)

\* a heartbeat found a peer Dialing past its timeout and reverted it
C28_Witness ==
  /\ pm_last = Last("heartbeat", 1, 0)
  /\ \A p \in Enrs : pm.peers.status[p] = "Disconnected"
  /\ pm_conns = [p \in Enrs |-> 0]


\* C29: on each poll the status timers that are due are drained and a
\* Status(peer) event is queued for each, so a peer that stays connected is
\* eventually sent a Status request: poll eventually releases Status(peer),
\* unless the peer stops being connected.
C29_StatusEventuallySent ==
  \A p \in Enrs :
    (pm.peers.status[p] \in ConnectedStatuses /\ p \in pm.status_peers) ~>
      \/ pm.peers.status[p] \notin ConnectedStatuses
      \/ pm_out = PmPollResult("GenerateEvent", 0, <<PmEvent("Status", p, 0)>>)


\* the Ping events for a sequence of expired ping timers
PingEvents(due) == [i \in 1..Len(due) |-> PmEvent("Ping", due[i], 0)]

\* C30: a peer tracked as Connected with direction d has a ping timer armed in
\* the timer set of direction d and a status timer armed; and a poll in which
\* ping timers expire leaves every expired peer in its set and queues exactly
\* one Ping for each expiry, after the events queued before.
C30_ConnectedPeersHaveTimers ==
  /\ \A p \in Enrs :
       /\ pm.peers.status[p] = "ConnectedIn" =>
            p \in pm.inbound_ping_peers /\ p \in pm.status_peers
       /\ pm.peers.status[p] = "ConnectedOut" =>
            p \in pm.outbound_ping_peers /\ p \in pm.status_peers
  /\ \A due_inbound \in Orders(pm.inbound_ping_peers) :
       \A due_outbound \in Orders(pm.outbound_ping_peers) :
         LET r == poll(pm, <<>>, due_inbound, due_outbound)
         IN /\ r.self.inbound_ping_peers = pm.inbound_ping_peers
            /\ r.self.outbound_ping_peers = pm.outbound_ping_peers
            /\ r.self.status_peers = pm.status_peers
            /\ r.out.event \o r.self.events =
                 pm.events \o PingEvents(due_inbound) \o PingEvents(due_outbound)

\* a peer is connected outbound with both timers armed, and the poll just made
\* released the Ping of its expired timer
C30_Witness ==
  \E p \in Enrs :
    /\ pm.peers.status[p] = "ConnectedOut" /\ pm_conns[p] > 0
    /\ p \in pm.outbound_ping_peers /\ p \in pm.status_peers
    /\ pm_out = PmPollResult("GenerateEvent", 0, <<PmEvent("Ping", p, 0)>>)


(***************************************************************************)
(* The dial queue's and the notifications' claims.                         *)
(***************************************************************************)
\* C31: peers_discovered caches a candidate's deadline in the peer store only
\* when that candidate is admitted to the dial queue in this call; for a
\* candidate that is not admitted (already queued, over capacity, or reported
\* not dialable by the store) the stored deadline is unchanged.
C31_DeadlineCachedOnAdmission ==
  \A results \in Batches :
    LET r == peers_discovered(pm, results)
    IN \A p \in Enrs :
         (p \in r.self.peers.min_ttl) # (p \in pm.peers.min_ttl) =>
           \E d \in r.decisions : d.enr = p /\ d.admitted


\* C32: make_unsigned is injective: two triples (domain, payload_type,
\* payload) that differ in a component give different blobs, so shifting
\* bytes across field boundaries never yields the same signed blob.
C32_MakeUnsignedInjective ==
  mu_pc = "made" =>
    \A d \in FieldStrings, t \in FieldStrings, p \in FieldStrings :
      <<d, t, p>> # <<mu_domain, mu_payload_type, mu_payload>> =>
        make_unsigned(d, t, p) # mu_out

\* a blob was made of a triple whose bytes, cut at other boundaries, form
\* another triple
C32_Witness ==
  /\ mu_pc = "made"
  /\ \E d \in FieldStrings, t \in FieldStrings, p \in FieldStrings :
       /\ <<d, t, p>> # <<mu_domain, mu_payload_type, mu_payload>>
       /\ d \o t \o p = mu_domain \o mu_payload_type \o mu_payload


\* C33: poll records a peer as Dialing and emits a dial request only for a
\* peer that is dialable at that moment: a candidate that became Connected or
\* banned after it was queued is not dialed, and a Connected peer's store
\* status is never overwritten by Dialing.
C33_PollDialsOnlyDialable ==
  [][/\ pm_out'.kind = "Dial" =>
          /\ pm.peers.status[pm_out'.peer] \notin ConnectedStatuses
          /\ pm_out'.peer \notin pm.peers.banned
     /\ \A p \in Enrs :
          pm.peers.status[p] \in ConnectedStatuses => pm'.peers.status[p] # "Dialing"]_vars


\* C34: after any sequence of dial_peer, peers_discovered and poll calls the
\* dial queue never contains the same candidate twice.
C34_DialQueueHasNoDuplicates ==
  \A i \in 1..Len(pm.peers_to_dial), j \in 1..Len(pm.peers_to_dial) :
    i # j => pm.peers_to_dial[i] # pm.peers_to_dial[j]


\* how many events of some kinds an event queue holds about a peer
NotificationsOf(events, p, kinds) ==
  Cardinality({i \in 1..Len(events) : events[i].peer = p /\ events[i].kind \in kinds})

ConnectEvents(events, p) ==
  NotificationsOf(events, p, {"PeerConnectedIncoming", "PeerConnectedOutgoing"})

\* C35: per peer, connect and disconnect notifications are queued in strict
\* alternation starting with a connect: a further connection to a peer that
\* already has one queues no second connect event, and the close of a peer's
\* last connection queues exactly one PeerDisconnected for it.
C35_NotificationsAlternate ==
  [][\A p \in Enrs :
       /\ (pm_conns[p] > 0 /\ pm_conns'[p] > pm_conns[p]) =>
            ConnectEvents(pm'.events, p) = ConnectEvents(pm.events, p)
       /\ (pm_conns[p] = 0 /\ pm_conns'[p] > 0) =>
            ConnectEvents(pm'.events, p) = ConnectEvents(pm.events, p) + 1
       /\ (pm_conns[p] > 0 /\ pm_conns'[p] = 0) =>
            NotificationsOf(pm'.events, p, {"PeerDisconnected"}) =
              NotificationsOf(pm.events, p, {"PeerDisconnected"}) + 1]_vars


\* C36: when connections are established only after the matching admission
\* check accepted them and no peer carries the future-duty flag, the number of
\* connected peers is at most max_outbound_dialing_peers in every reachable
\* state, and no accepted inbound connection raises connected_or_dialing above
\* max_peers.
C36_LimitsWithoutFutureDuty ==
  [][pm'.peers.future_duty = {} =>
       /\ CountWithStatus(pm', {"ConnectedIn", "ConnectedOut"}) <=
            max_outbound_dialing_peers(pm')
       /\ (pm_last'.op = "inbound_connection" /\ pm_last'.ret) =>
            CountWithStatus(pm', {"ConnectedIn", "ConnectedOut", "Dialing"}) <= max_peers(pm')]_vars

\* an admitted outbound connection has brought the connected peers to
\* max_outbound_dialing_peers, and a second dial is waiting
C36_Witness ==
  /\ pm.peers.future_duty = {}
  /\ pm_last.op = "outbound_connection" /\ pm_last.ret
  /\ CountWithStatus(pm, {"ConnectedIn", "ConnectedOut"}) = max_outbound_dialing_peers(pm)
  /\ \E q \in Enrs : pm.peers.status[q] = "Dialing"


\* C37: for every target, every already_dialing value and every store, the
\* subtractions in maintain_peer_count do not underflow, and when it queues
\* DiscoverPeers(n) then n >= 1 and connected_or_dialing + already_dialing + n
\* is at most max_outbound_dialing_peers, and is max_peers in the
\* general-shortfall branch.
C37_WantedPeersInRange ==
  pm_last.op = "maintain_peer_count" =>
    LET already_dialing == pm_last.to_dial_peers
        connected_or_dialing ==
          CountWithStatus(pm, {"ConnectedIn", "ConnectedOut", "Dialing"})
        shortfall == connected_or_dialing < pm.target_peers_count - already_dialing
    IN /\ shortfall => max_peers(pm) - already_dialing >= connected_or_dialing
       /\ Len(pm.events) <= 1
       /\ \A i \in 1..Len(pm.events) :
            /\ pm.events[i].kind = "DiscoverPeers"
            /\ pm.events[i].n >= 1
            /\ connected_or_dialing + already_dialing + pm.events[i].n <=
                 max_outbound_dialing_peers(pm)
            /\ shortfall =>
                 connected_or_dialing + already_dialing + pm.events[i].n = max_peers(pm)

\* below the target with peers dialing and more admitted, DiscoverPeers was
\* queued for what is left up to max_peers
C37_Witness ==
  /\ pm_last.op = "maintain_peer_count" /\ pm_last.to_dial_peers = MaxDialing
  /\ \E p \in Enrs : pm.peers.status[p] = "Dialing"
  /\ connected_or_dialing_peers(pm) + MaxDialing < pm.target_peers_count
  /\ pm.events = <<PmEvent("DiscoverPeers", 0,
                           max_peers(pm) - MaxDialing - connected_or_dialing_peers(pm))>>


\* C38: every Ping(peer) event that poll releases names a peer that is tracked
\* as Connected at the moment the event is released.
C38_PingOnlyForConnected ==
  \A p \in Enrs :
    pm_out = PmPollResult("GenerateEvent", 0, <<PmEvent("Ping", p, 0)>>) =>
      pm.peers.status[p] \in ConnectedStatuses


\* C39: a peer is in at most one of the inbound-ping and outbound-ping timer
\* sets, also when connections to it exist in both directions.
C39_OneDirectionTimer ==
  pm.inbound_ping_peers \cap pm.outbound_ping_peers = {}


\* C40: every candidate admitted to the dial queue is eventually popped and
\* emitted as a dial request, provided poll keeps being called: no candidate
\* stays queued forever, even while new events are queued and new candidates
\* are admitted behind it.
C40_QueuedCandidateEventuallyDialed ==
  \A p \in Enrs :
    (\E i \in 1..Len(pm.peers_to_dial) : pm.peers_to_dial[i] = p) ~>
      (pm_out = PmPollResult("Dial", p, <<>>))

====
